---- MODULE Spec2Model ----
(***************************************************************************)
(* A model of the buffered, rotating file writer RotateLogger              *)
(* (src/rotatelogger.go, the definition starting at line 391) together     *)
(* with the buffer pool it draws from (src/unnamed/part_003) and the size  *)
(* rotation rule (src/unnamed/part_000).                                   *)
(*                                                                         *)
(* Caller goroutines (Clients) call Write, Sync and Close; one worker      *)
(* goroutine owns the file.  Every step is one access to shared state, so  *)
(* that accesses made without the mutex (Close's store to l.closed, the    *)
(* worker's deferred flush) interleave with the critical section of Write  *)
(* the way the scheduler allows.                                           *)
(*                                                                         *)
(* A buffer is the sequence of the records appended to it; record i is     *)
(* the i-th Write call issued.  An entry i stands for all bytes of record  *)
(* i, an entry -i for the region of record i read while bytes.Buffer.Write *)
(* had grown the slice and had not finished copying (only an unlocked      *)
(* reader can see it).  A *bytes.Buffer is <<>> (nil) or <<b>>.            *)
(***************************************************************************)
EXTENDS Integers, Sequences, FiniteSets, TLC

\* ---- program constants
logPageNumber == 2
logPageCacheByteSize == 4096
megaBytes == 1048576
bpoolSize == 500
\* the bytes NonColorable.Write looks for: 0x1b and 0x5b
escByte == 27
csiByte == 91

\* ---- bounds of the model
MaxWrites == 3
MaxSyncs == 2
MaxCloses == 2
MaxCalls == 4
\* buffers written in the runs of the size rule alone
MaxBuffers == 3
\* the last day of the clock in the runs of the daily rule
MaxDay == 3
\* Logging values, SetLevel calls and log calls in the runs of the facade
MaxLoggers == 2
MaxSets == 2
MaxLogs == 1
\* len(data) of a NonColorable.Write call
MaxData == 4

\* ---- inputs
Clients == {"g1", "g2"}
\* len(b) of a Write: below the page size, and above it
RecSizes == {2048, 4097}
\* the rule's maxSize as NewSizeLimitRotateRule(.., maxSize = 1, ..) sets it
maxSize == 1 * megaBytes
\* size of the log file found by initialize(): a new file, or one a page short of maxSize
InitSizes == {0, maxSize - logPageCacheByteSize}

VARIABLES
    pc,          \* caller goroutine -> where it is in Write / Sync / Close
    cur,         \* caller goroutine -> the record its Write call carries (b)
    wbuf,        \* caller goroutine -> buf, the detached buffer of Write
    mu,          \* l.mu: "none" or its holder
    closed,      \* l.closed
    done,        \* l.done is closed
    once,        \* l.closeOnce: "fresh", "running", "done"
    current,     \* l.current
    fullBuffer,  \* l.fullBuffer, the handoff channel
    count,       \* bpool.count
    wpc,         \* the worker goroutine's position
    fctx,        \* which flush() call the worker is in: "sync", "final", "none"
    buff,        \* the worker's local buff
    readyLen,    \* flush(): iterations left of the drain loop
    fp,          \* l.fp: "nil", "open", or "stale" (a closed *os.File)
    currentSize, \* l.currentSize
    exists,      \* os.Stat(l.filename) succeeds
    active,      \* what has been written to the file at l.filename
    backups,     \* the renamed files, in rotation order
    fdOpen,      \* number of open OS file handles
    maint,       \* number of postRotate goroutines spawned
    panic,       \* "none", or the goroutine kind that panicked (the process is gone)
    \* ---- history
    recs,        \* the Write calls issued: [owner, size, res]
    nSync,       \* Sync calls issued
    nClose,      \* Close calls issued
    ioFailed,    \* a call on the file system has failed
    overlap,     \* some Write call was not over when the first Close was issued
    covered,     \* the callers whose Sync request preceded the running sync flush
    synced,      \* the callers in Sync for whom a later sync flush has completed
    lateSync,    \* the results of the Sync calls issued after a Close call had returned
    finalQueued, \* the deferred flush() wrote a queued buffer
    finalStaged, \* the deferred flush() wrote a staging buffer holding records
    shutdownFail,\* the final fp.Sync() or fp.Close() failed
    badClose,    \* Sync/Close was called on an already closed *os.File
    closeResults,\* the results Close calls have returned
    \* ---- a logger with the daily rule (the runs of SpecDaily)
    now,         \* the clock: the day time.Now() falls in
    dpc,         \* where that logger is: rule construction, initialize, rotate
    rotatedTime, \* DailyRotateRule.rotatedTime
    backup,      \* l.backup
    renamed,     \* the names os.Rename has given the active file, in order
    rotatedOn,   \* the days on which ShallRotate said yes
    \* ---- a rule asked for its outdated files (the runs of SpecOutdated)
    rule,        \* the rule: [kind, gzip, maxBackups, window (r.days or r.hours)]
    dir,         \* the names in the log directory
    outdates,    \* <<>> or <<the set of names the OutdatedFiles call returned>>
    \* ---- one gzipFile call (the runs of SpecGzip)
    fsys,        \* which calls on the FileSystem succeed
    gzres,       \* <<>> or <<what the gzipFile call returned and left on disk>>
    \* ---- the Logging facade over its zap cores (the runs of SpecLevels)
    lgs,         \* the Logging values made so far: [opt, atomicLevel, lg]
    atomicCell,  \* the cells zap.AtomicLevel values point to: pointer -> zapcore.Level
    zcores,      \* the cores build() gave the zap logger: [sink, enab]
    out,         \* sink -> the levels of the records written to it, in order
    logged,      \* the log calls issued: [via, lvl]
    lastSet,     \* the Level most recently set (New's option, then SetLevel's argument)
    nSet,        \* SetLevel calls issued
    \* ---- the worker writing buffers one after another, call by call on the
    \* file system (the runs of SpecRotate)
    rpc,         \* where writeBuffer() / rotate() is
    rfp,         \* l.fp: "nil" or "open"
    rOpen,       \* number of open OS file handles
    rSize,       \* l.currentSize
    rExists,     \* os.Stat(l.filename) succeeds
    rBackup,     \* l.backup
    rMarker,     \* the rule's rotatedTime
    rClock,      \* the clock: the instant time.Now() falls in
    rLen,        \* buff.Len() of the buffer writeBuffer() was called with
    rErr,        \* what rotate() returned in this writeBuffer(): "none" (not called), "nil", "err"
    rOps,        \* the calls rotate() has made in this writeBuffer(), in order
    rEntry,      \* l.currentSize and the marker when writeBuffer() was entered
    rCount,      \* writeBuffer() calls made
    \* ---- one postRotate goroutine beside the worker (the runs of SpecMaint)
    mpc,         \* where the goroutine is: "off", "compress", "list", "remove", "done"
    mFile,       \* the file postRotate was called with
    mTodo,       \* the outdated files the loop has not come to yet
    mFailed,     \* the files whose os.Remove failed (logged)
    \* ---- goroutines in getBuffer() and putBuffer(), instruction by instruction
    \* (the runs of SpecCas)
    ppc,         \* goroutine -> "idle", "load" (before the atomic load), "cas"
    pObs,        \* goroutine -> c, the count it loaded
    pHeld,       \* goroutine -> the buffers it holds
    pRes,        \* goroutine -> what its last getBuffer() returned: "none", "buf", "nil"
    pBase,       \* the buffers the rest of the process holds
    pCalls,      \* getBuffer() calls issued
    \* ---- one NonColorable.Write call (the runs of SpecWrap)
    ncData,      \* data
    ncOuts,      \* what the successive Write calls on w.out return
    ncRes        \* <<>> or <<what the call returned and did>>

clientVars == <<pc, cur, wbuf>>
flagVars   == <<closed, done, once>>
bufVars    == <<current, fullBuffer, count>>
workerVars == <<wpc, fctx, buff, readyLen>>
fileVars   == <<fp, currentSize, exists, active, backups, fdOpen, maint, badClose>>
syncHist   == <<covered, synced, lateSync>>
closeHist  == <<overlap, finalQueued, finalStaged, shutdownFail, closeResults>>
callHist   == <<recs, nSync, nClose>>
dailyVars  == <<now, dpc, rotatedTime, backup, renamed, rotatedOn>>
retVars    == <<rule, dir, outdates>>
gzVars     == <<fsys, gzres>>
lvlVars    == <<lgs, atomicCell, zcores, out, logged, lastSet, nSet>>
rotVars    == <<rpc, rfp, rOpen, rSize, rExists, rBackup, rMarker, rClock, rLen, rErr,
                rOps, rEntry, rCount>>
mntVars    == <<mpc, mFile, mTodo, mFailed>>
casVars    == <<ppc, pObs, pHeld, pRes, pBase, pCalls>>
ncVars     == <<ncData, ncOuts, ncRes>>
lateVars   == <<mntVars, casVars, ncVars>>
moreVars   == <<lvlVars, rotVars, lateVars>>
sideVars   == <<dailyVars, retVars, gzVars, moreVars>>
vars == <<clientVars, mu, flagVars, bufVars, workerVars, fileVars, panic,
          callHist, ioFailed, syncHist, closeHist, sideVars>>

\* ---- buffers
Nil == <<>>
Ptr(b) == <<b>>
Abs(i) == IF i < 0 THEN -i ELSE i

RECURSIVE BufLen(_, _)
\* bytes.Buffer.Len(): the bytes of the entries of b
BufLen(b, rs) ==
    IF b = <<>> THEN 0 ELSE rs[Abs(Head(b))].size + BufLen(Tail(b), rs)

\* a Write call is inside its critical section or handing its buffer off
WritePcs == {"w_closed", "w_done", "w_get", "w_append", "w_copy", "w_len", "w_send"}

SetRes(rs, i, r) == [rs EXCEPT ![i].res = r]

\* the logger after NewRotateLogger, in a process whose goroutines G may call
\* it and whose pool has c buffers out
LoggerInitFor(G, c) ==
    /\ pc = [g \in G |-> "idle"]
    /\ cur = [g \in G |-> 0]
    /\ wbuf = [g \in G |-> Nil]
    /\ mu = "none"
    /\ closed = FALSE
    /\ done = FALSE
    /\ once = "fresh"
    /\ current = Ptr(<<>>)          \* NewRotateLogger: current: getBuffer()
    /\ fullBuffer = <<>>
    /\ count = c
    /\ wpc = "select"
    /\ fctx = "none"
    /\ buff = Nil
    /\ readyLen = 0
    /\ fp = "open"
    /\ currentSize \in InitSizes
    /\ exists = TRUE
    /\ active = <<>>
    /\ backups = <<>>
    /\ fdOpen = 1
    /\ maint = 0
    /\ badClose = FALSE
    /\ panic = "none"
    /\ recs = <<>>
    /\ nSync = 0
    /\ nClose = 0
    /\ ioFailed = FALSE
    /\ overlap = FALSE
    /\ covered = {}
    /\ synced = {}
    /\ lateSync = {}
    /\ finalQueued = FALSE
    /\ finalStaged = FALSE
    /\ shutdownFail = FALSE
    /\ closeResults = {}

LoggerInit(c) == LoggerInitFor(Clients, c)

\* no logger with the daily rule
DailyOff ==
    /\ now = 0
    /\ dpc = "off"
    /\ rotatedTime = <<>>
    /\ backup = <<>>
    /\ renamed = <<>>
    /\ rotatedOn = <<>>

\* no rule is asked for outdated files
RetentionOff ==
    /\ rule = [kind |-> "none", gzip |-> FALSE, maxBackups |-> 0, window |-> 0]
    /\ dir = {}
    /\ outdates = <<>>

FsCalls == {"Open", "Create", "Copy", "CloseGzip", "CloseOut", "CloseIn", "Remove"}

\* no gzipFile call
GzipOff ==
    /\ fsys = [c \in FsCalls |-> TRUE]
    /\ gzres = <<>>

\* no Logging facade
LevelsOff ==
    /\ lgs = <<>>
    /\ atomicCell = <<>>
    /\ zcores = {}
    /\ out = <<>>
    /\ logged = <<>>
    /\ lastSet = 0
    /\ nSet = 0

\* no worker taken alone
RotateOff ==
    /\ rpc = "off"
    /\ rfp = "nil"
    /\ rOpen = 0
    /\ rSize = 0
    /\ rExists = FALSE
    /\ rBackup = <<>>
    /\ rMarker = <<>>
    /\ rClock = 0
    /\ rLen = 0
    /\ rErr = "none"
    /\ rOps = <<>>
    /\ rEntry = <<>>
    /\ rCount = 0

\* no postRotate goroutine
MaintOff ==
    /\ mpc = "off"
    /\ mFile = <<>>
    /\ mTodo = {}
    /\ mFailed = {}

\* no goroutine followed through the pool
CasOff ==
    /\ ppc = <<>>
    /\ pObs = <<>>
    /\ pHeld = <<>>
    /\ pRes = <<>>
    /\ pBase = 0
    /\ pCalls = 0

\* no NonColorable.Write call
WrapOff ==
    /\ ncData = <<>>
    /\ ncOuts = <<>>
    /\ ncRes = <<>>

LateOff == MaintOff /\ CasOff /\ WrapOff

MoreOff == LevelsOff /\ RotateOff /\ LateOff

InitWith(c) == LoggerInit(c) /\ DailyOff /\ RetentionOff /\ GzipOff /\ MoreOff

\* this logger's staging buffer is the only buffer out
Init == InitWith(1)

\* the goroutines of the process beyond Clients: each may add a call
Extra == Cardinality(DOMAIN pc) - Cardinality(Clients)

\* the calls issued so far stay within the bounds
MayCall == Len(recs) + nSync + nClose < MaxCalls + Extra

\* ---- the file: close(), rotate(), writeBuffer() as functions of the file state

FileState ==
    [fp |-> fp, currentSize |-> currentSize, exists |-> exists, active |-> active,
     backups |-> backups, fdOpen |-> fdOpen, maint |-> maint, bad |-> badClose]

ApplyFs(s) ==
    /\ fp' = s.fp
    /\ currentSize' = s.currentSize
    /\ exists' = s.exists
    /\ active' = s.active
    /\ backups' = s.backups
    /\ fdOpen' = s.fdOpen
    /\ maint' = s.maint
    /\ badClose' = s.bad

\* a rule that rotates as soon as the size reaches maxSize
ShallRotateMut(m, size) == m > 0 /\ m <= size

\* SizeLimitRotateRule.ShallRotate for a rule whose r.maxSize is m
ShallRotateAt(m, size) == m > 0 /\ m < size

\* SizeLimitRotateRule.ShallRotate of this logger's rule
ShallRotate(size) == ShallRotateAt(maxSize, size)

\* RotateLogger.close(): Sync and Close the handle, forget it, join the errors.
\* f = "err": one of the two calls fails.  A handle that is already closed
\* ("stale") fails both.
closeFile(s, f) ==
    CASE s.fp = "nil"   -> [fs |-> s, err |-> FALSE]
      [] s.fp = "stale" -> [fs |-> [s EXCEPT !.fp = "nil", !.bad = TRUE], err |-> TRUE]
      [] OTHER          -> [fs |-> [s EXCEPT !.fp = "nil", !.fdOpen = @ - 1],
                            err |-> (f = "err")]

\* RotateLogger.rotate(); f names the call that fails, "ok" when none does
rotate(s, f) ==
    LET c  == closeFile(s, IF f = "close" THEN "err" ELSE "ok")
        s1 == c.fs
        \* os.Rename(l.filename, backupFilename); l.postRotate(backupFilename)
        s2 == IF s1.exists
              THEN [s1 EXCEPT !.backups = Append(@, s1.active), !.active = <<>>,
                              !.exists = FALSE, !.maint = @ + 1]
              ELSE s1
    IN  IF c.err THEN [fs |-> s1, err |-> TRUE]
        ELSE IF s1.exists /\ f = "rename" THEN [fs |-> s1, err |-> TRUE]
        ELSE IF f = "create" THEN [fs |-> s2, err |-> TRUE]
        ELSE [fs |-> [s2 EXCEPT !.fp = "open", !.exists = TRUE, !.active = <<>>,
                                !.fdOpen = @ + 1],
              err |-> FALSE]

\* the failures rotate() can meet in state s
RotateFailures(s) ==
    (IF s.fp = "open" THEN {"close"} ELSE {})
        \cup (IF s.exists THEN {"rename"} ELSE {}) \cup {"create"}

\* a writeBuffer that keeps counting after a rotation
writeBufferKeepMut(s, b, rs, f) ==
    LET sz == BufLen(b, rs)
        r  == rotate(s, f)
        s1 == IF ShallRotate(s.currentSize + sz) THEN r.fs ELSE s
    IN  IF s1.fp = "nil" THEN [fs |-> s1, wrote |-> FALSE]
        ELSE IF s1.fp = "stale" THEN [fs |-> [s1 EXCEPT !.bad = TRUE], wrote |-> FALSE]
        ELSE [fs |-> [s1 EXCEPT !.active = @ \o b, !.currentSize = @ + sz],
              wrote |-> TRUE]

\* a writeBuffer that writes without testing the handle
writeBufferMut(s, b, rs, f) ==
    LET sz == BufLen(b, rs)
        r  == rotate(s, f)
        s1 == IF ShallRotate(s.currentSize + sz)
              THEN (IF r.err THEN r.fs ELSE [r.fs EXCEPT !.currentSize = 0])
              ELSE s
    IN  [fs |-> [s1 EXCEPT !.active = @ \o b, !.currentSize = @ + sz], wrote |-> TRUE]

\* RotateLogger.writeBuffer(buff) for the contents b of buff
writeBuffer(s, b, rs, f) ==
    LET sz == BufLen(b, rs)
        r  == rotate(s, f)
        s1 == IF ShallRotate(s.currentSize + sz)
              THEN (IF r.err THEN r.fs ELSE [r.fs EXCEPT !.currentSize = 0])
              ELSE s
    IN  IF s1.fp = "nil" THEN [fs |-> s1, wrote |-> FALSE]
        ELSE IF s1.fp = "stale" THEN [fs |-> [s1 EXCEPT !.bad = TRUE], wrote |-> FALSE]
        ELSE [fs |-> [s1 EXCEPT !.active = @ \o b, !.currentSize = @ + sz],
              wrote |-> TRUE]

\* the outcomes of the I/O of writeBuffer(b): all succeed, or one rotation call fails
WriteOutcomes(b) ==
    {"ok"} \cup
        (IF ShallRotate(currentSize + BufLen(b, recs))
         THEN RotateFailures(FileState) ELSE {})

Failed(f) == ioFailed' = (ioFailed \/ f # "ok")

\* ---- the buffer pool

\* a pool that never refuses
PoolExhaustedMut(c) == FALSE

\* getBuffer(): nil once count exceeds size, else one more outstanding buffer
PoolExhausted(c) == c > bpoolSize

\* getBuffer() when the counter reads c: the buffer returned and the counter after.
\* The load and the compare-and-swap are taken as one step: a failed swap only
\* repeats the load.
getBuffer(c) ==
    IF PoolExhausted(c) THEN [b |-> Nil, count |-> c]
    ELSE [b |-> Ptr(<<>>), count |-> c + 1]

\* putBuffer(b): the counter after
putBuffer(c) == c - 1

\* ---- Write (src/rotatelogger.go 503-538)

\* the call returns r
WriteReturns(g, r) ==
    /\ pc' = [pc EXCEPT ![g] = "idle"]
    /\ cur' = [cur EXCEPT ![g] = 0]
    /\ recs' = SetRes(recs, cur[g], r)

\* l.mu.Lock(): the call is issued with some b
WriteLock(g) ==
    /\ panic = "none"
    /\ pc[g] = "idle"
    /\ MayCall
    /\ Len(recs) < MaxWrites + Extra
    /\ mu = "none"
    /\ mu' = g
    /\ \E sz \in RecSizes :
         recs' = Append(recs, [owner |-> g, size |-> sz, res |-> "pending"])
    /\ cur' = [cur EXCEPT ![g] = Len(recs) + 1]
    /\ pc' = [pc EXCEPT ![g] = "w_closed"]
    /\ overlap' = (overlap \/ nClose > 0)
    /\ UNCHANGED <<sideVars, wbuf, flagVars, bufVars, workerVars, fileVars, panic,
                   nSync, nClose, ioFailed, syncHist, finalQueued, finalStaged,
                   shutdownFail, closeResults>>

\* a Write that tests only the done channel, as the ring-buffer version did
WriteSeesClosedMut == done

\* what Write reads at "if l.closed"
WriteSeesClosed == closed

\* if l.closed { l.mu.Unlock(); return 0, ErrClosedRollingFile }
WriteCheckClosed(g) ==
    /\ panic = "none"
    /\ pc[g] = "w_closed"
    /\ IF WriteSeesClosed
       THEN /\ mu' = "none"
            /\ WriteReturns(g, "ErrClosedRollingFile")
       ELSE /\ pc' = [pc EXCEPT ![g] = "w_done"]
            /\ UNCHANGED <<mu, cur, recs>>
    /\ UNCHANGED <<sideVars, wbuf, flagVars, bufVars, workerVars, fileVars, panic,
                   nSync, nClose, ioFailed, syncHist, closeHist>>

\* select { case <-l.done: return 0, fmt.Errorf("logger is closed"); default: }
WriteCheckDone(g) ==
    /\ panic = "none"
    /\ pc[g] = "w_done"
    /\ IF done
       THEN /\ mu' = "none"
            /\ WriteReturns(g, "ErrLoggerIsClosed")
       ELSE /\ pc' = [pc EXCEPT ![g] = "w_get"]
            /\ UNCHANGED <<mu, cur, recs>>
    /\ UNCHANGED <<sideVars, wbuf, flagVars, bufVars, workerVars, fileVars, panic,
                   nSync, nClose, ioFailed, syncHist, closeHist>>

\* if l.current == nil { l.current = getBuffer(); if nil { return 0, ErrBuffer } }
WriteGetBuffer(g) ==
    /\ panic = "none"
    /\ pc[g] = "w_get"
    /\ IF current # Nil
       THEN /\ pc' = [pc EXCEPT ![g] = "w_append"]
            /\ UNCHANGED <<mu, cur, recs, current, count>>
       ELSE IF PoolExhausted(count)
       THEN /\ mu' = "none"
            /\ WriteReturns(g, "ErrBuffer")
            /\ UNCHANGED <<current, count>>
       ELSE /\ current' = Ptr(<<>>)
            /\ count' = count + 1
            /\ pc' = [pc EXCEPT ![g] = "w_append"]
            /\ UNCHANGED <<mu, cur, recs>>
    /\ UNCHANGED <<sideVars, wbuf, flagVars, fullBuffer, workerVars, fileVars, panic,
                   nSync, nClose, ioFailed, syncHist, closeHist>>

\* l.current.Write(b), first half: bytes.Buffer.Write grows the slice by len(b).
\* A nil l.current is a nil dereference.
WriteAppend(g) ==
    /\ panic = "none"
    /\ pc[g] = "w_append"
    /\ IF current = Nil
       THEN /\ panic' = "Write"
            /\ UNCHANGED <<pc, current>>
       ELSE /\ current' = Ptr(Append(current[1], -cur[g]))
            /\ pc' = [pc EXCEPT ![g] = "w_copy"]
            /\ UNCHANGED panic
    /\ UNCHANGED <<sideVars, cur, wbuf, mu, flagVars, fullBuffer, count, workerVars,
                   fileVars, callHist, ioFailed, syncHist, closeHist>>

\* the buffer after copy(b.buf[m:], p): the grown region now holds the record,
\* if the buffer still has it (WriteTo resets the buffer it has written)
Copied(b, i) ==
    IF b # <<>> /\ b[Len(b)] = -i THEN [b EXCEPT ![Len(b)] = i] ELSE b

\* l.current.Write(b), second half: the copy into the grown region
WriteCopy(g) ==
    /\ panic = "none"
    /\ pc[g] = "w_copy"
    /\ current' = IF current = Nil THEN Nil ELSE Ptr(Copied(current[1], cur[g]))
    /\ pc' = [pc EXCEPT ![g] = "w_len"]
    /\ UNCHANGED <<sideVars, cur, wbuf, mu, flagVars, fullBuffer, count, workerVars,
                   fileVars, panic, callHist, ioFailed, syncHist, closeHist>>

\* a Write that detaches at twice the page size
PageFullMut(n) == n > 2 * logPageCacheByteSize

\* l.current.Len() > logPageCacheByteSize
PageFull(n) == n > logPageCacheByteSize

\* a Write that keeps the mutex while it hands the buffer over
MuAfterDetachMut(g) == g

\* the holder of l.mu after "buf := l.current; l.current = nil; l.mu.Unlock()"
MuAfterDetach(g) == "none"

\* if full { buf := l.current; l.current = nil; Unlock } else { Unlock; return n, nil }
WriteLenCheck(g) ==
    /\ panic = "none"
    /\ pc[g] = "w_len"
    /\ IF current = Nil
       THEN /\ panic' = "Write"
            /\ UNCHANGED <<pc, cur, wbuf, mu, current, recs>>
       ELSE IF PageFull(BufLen(current[1], recs))
       THEN /\ wbuf' = [wbuf EXCEPT ![g] = current]
            /\ current' = Nil
            /\ mu' = MuAfterDetach(g)
            /\ pc' = [pc EXCEPT ![g] = "w_send"]
            /\ UNCHANGED <<cur, recs, panic>>
       ELSE /\ mu' = "none"
            /\ WriteReturns(g, "nil")
            /\ UNCHANGED <<wbuf, current, panic>>
    /\ UNCHANGED <<sideVars, flagVars, fullBuffer, count, workerVars, fileVars,
                   nSync, nClose, ioFailed, syncHist, closeHist>>

\* cap(l.fullBuffer)
ChanCap == logPageNumber + 1

\* l.fullBuffer <- buf; return n, nil
WriteSend(g) ==
    /\ panic = "none"
    /\ pc[g] = "w_send"
    /\ Len(fullBuffer) < ChanCap
    /\ fullBuffer' = Append(fullBuffer, wbuf[g][1])
    /\ wbuf' = [wbuf EXCEPT ![g] = Nil]
    /\ WriteReturns(g, "nil")
    /\ UNCHANGED <<sideVars, mu, flagVars, current, count, workerVars, fileVars, panic,
                   nSync, nClose, ioFailed, syncHist, closeHist>>

WriteStep(g) ==
    \/ WriteLock(g)
    \/ WriteCheckClosed(g)
    \/ WriteCheckDone(g)
    \/ WriteGetBuffer(g)
    \/ WriteAppend(g)
    \/ WriteCopy(g)
    \/ WriteLenCheck(g)
    \/ WriteSend(g)

\* ---- Sync (src/rotatelogger.go 691-702)

\* a Sync that does not test the flag
SyncSeesClosedMut == FALSE

\* what Sync reads at "if l.closed"
SyncSeesClosed == closed

\* l.mu.Lock(); if l.closed { return ErrClosedRollingFile }; l.mu.Unlock()
SyncCheck(g) ==
    /\ panic = "none"
    /\ pc[g] = "idle"
    /\ MayCall
    /\ nSync < MaxSyncs
    /\ mu = "none"
    /\ nSync' = nSync + 1
    /\ pc' = [pc EXCEPT ![g] = IF SyncSeesClosed THEN "idle" ELSE "s_send"]
    /\ lateSync' = IF closeResults = {} THEN lateSync
                   ELSE lateSync \cup {IF SyncSeesClosed THEN "ErrClosedRollingFile"
                                                         ELSE "pending"}
    /\ UNCHANGED <<sideVars, cur, wbuf, mu, flagVars, bufVars, workerVars, fileVars, panic,
                   recs, nClose, ioFailed, covered, synced, closeHist>>

\* l.syncFlush <- struct{}{} meets the worker's "case <-l.syncFlush"
SyncSendToWorker(g) ==
    /\ panic = "none"
    /\ pc[g] = "s_send"
    /\ wpc = "select"
    /\ wpc' = "sf_lock"
    /\ pc' = [pc EXCEPT ![g] = "s_recv"]
    /\ UNCHANGED <<sideVars, cur, wbuf, mu, flagVars, bufVars, fctx, buff, readyLen,
                   fileVars, panic, callHist, ioFailed, syncHist, closeHist>>

\* l.syncFlush <- struct{}{} meets another caller's "<-l.syncFlush": the channel
\* is unbuffered and both directions use it, so h's receive takes g's request
\* and h returns nil
SyncSendToCaller(g, h) ==
    /\ panic = "none"
    /\ g # h
    /\ pc[g] = "s_send"
    /\ pc[h] = "s_recv"
    /\ pc' = [pc EXCEPT ![g] = "s_recv", ![h] = "idle"]
    /\ covered' = covered \ {h}
    /\ synced' = synced \ {h}
    /\ UNCHANGED lateSync
    /\ UNCHANGED <<sideVars, cur, wbuf, mu, flagVars, bufVars, workerVars, fileVars, panic,
                   callHist, ioFailed, closeHist>>

SyncStep(g) ==
    \/ SyncCheck(g)
    \/ SyncSendToWorker(g)
    \/ \E h \in Clients : SyncSendToCaller(g, h)

\* ---- Close (src/rotatelogger.go 673-689)

\* the call returns r
CloseReturns(g, r) ==
    /\ pc' = [pc EXCEPT ![g] = "idle"]
    /\ closeResults' = closeResults \cup {r}

\* l.mu.Lock(); if l.closed { l.mu.Unlock(); return nil }; l.mu.Unlock()
CloseCheck(g) ==
    /\ panic = "none"
    /\ pc[g] = "idle"
    /\ MayCall
    /\ nClose < MaxCloses
    /\ mu = "none"
    /\ nClose' = nClose + 1
    /\ overlap' = (overlap \/ (nClose = 0 /\ \E h \in DOMAIN pc : pc[h] \in WritePcs))
    /\ IF closed
       THEN CloseReturns(g, "nil")
       ELSE /\ pc' = [pc EXCEPT ![g] = "c_once"]
            /\ UNCHANGED closeResults
    /\ UNCHANGED <<sideVars, cur, wbuf, mu, flagVars, bufVars, workerVars, fileVars, panic,
                   recs, nSync, ioFailed, syncHist, finalQueued, finalStaged,
                   shutdownFail>>

\* a Once that lets every caller run the function
OnceAdmitsMut(o) == TRUE

\* sync.Once: Do runs f for the first caller only
OnceAdmits(o) == o = "fresh"

\* l.closeOnce.Do(func() {...}): the first caller enters the function
CloseOnceEnter(g) ==
    /\ panic = "none"
    /\ pc[g] = "c_once"
    /\ OnceAdmits(once)
    /\ once' = "running"
    /\ pc' = [pc EXCEPT ![g] = "c_set"]
    /\ UNCHANGED <<sideVars, cur, wbuf, mu, closed, done, bufVars, workerVars, fileVars,
                   panic, callHist, ioFailed, syncHist, closeHist>>

\* l.closeOnce.Do: a later caller waits for the first to finish, then
\* returns its own err, which nothing assigned
CloseOnceSkip(g) ==
    /\ panic = "none"
    /\ pc[g] = "c_once"
    /\ once = "done"
    /\ CloseReturns(g, "nil")
    /\ UNCHANGED <<sideVars, cur, wbuf, mu, flagVars, bufVars, workerVars, fileVars, panic,
                   callHist, ioFailed, syncHist, overlap, finalQueued,
                   finalStaged, shutdownFail>>

\* l.closed = true (the mutex is not held)
CloseSetClosed(g) ==
    /\ panic = "none"
    /\ pc[g] = "c_set"
    /\ closed' = TRUE
    /\ pc' = [pc EXCEPT ![g] = "c_done"]
    /\ UNCHANGED <<sideVars, cur, wbuf, mu, done, once, bufVars, workerVars, fileVars,
                   panic, callHist, ioFailed, syncHist, closeHist>>

\* close(l.done); closing a closed channel panics
CloseCloseDone(g) ==
    /\ panic = "none"
    /\ pc[g] = "c_done"
    /\ IF done
       THEN /\ panic' = "Close"
            /\ UNCHANGED <<pc, done>>
       ELSE /\ done' = TRUE
            /\ pc' = [pc EXCEPT ![g] = "c_wait"]
            /\ UNCHANGED panic
    /\ UNCHANGED <<sideVars, cur, wbuf, mu, closed, once, bufVars, workerVars, fileVars,
                   callHist, ioFailed, syncHist, closeHist>>

\* a Close that does not wait for the worker
WaitGroupDoneMut == TRUE

\* l.waitGroup.Wait() returns once the worker has called Done
WaitGroupDone == wpc = "exited"

\* what one fp.Sync() / fp.Close() pair on an open handle can do
HandleOutcomes == IF fp = "open" THEN {"ok", "err"} ELSE {"ok"}

\* l.waitGroup.Wait(); err = l.close(); the function ends; return err
CloseFinish(g) ==
    /\ panic = "none"
    /\ pc[g] = "c_wait"
    /\ WaitGroupDone
    /\ \E f \in HandleOutcomes :
         LET c == closeFile(FileState, f)
         IN  /\ ApplyFs(c.fs)
             /\ Failed(f)
             /\ shutdownFail' = (shutdownFail \/ f = "err")
             /\ CloseReturns(g, IF c.err THEN "ErrJoin" ELSE "nil")
    /\ once' = "done"
    /\ UNCHANGED <<sideVars, cur, wbuf, mu, closed, done, bufVars, workerVars, panic,
                   callHist, syncHist, overlap, finalQueued, finalStaged>>

CloseStep(g) ==
    \/ CloseCheck(g)
    \/ CloseOnceEnter(g)
    \/ CloseOnceSkip(g)
    \/ CloseSetClosed(g)
    \/ CloseCloseDone(g)
    \/ CloseFinish(g)

\* ---- the worker goroutine (src/rotatelogger.go 453-501) and flush() (435-451)

\* case buff := <-l.fullBuffer
WorkerRecv ==
    /\ panic = "none"
    /\ wpc = "select"
    /\ fullBuffer # <<>>
    /\ buff' = Ptr(Head(fullBuffer))
    /\ fullBuffer' = Tail(fullBuffer)
    /\ wpc' = "wb"
    /\ UNCHANGED <<sideVars, clientVars, mu, flagVars, current, count, fctx, readyLen,
                   fileVars, panic, callHist, ioFailed, syncHist, closeHist>>

\* l.writeBuffer(buff); putBuffer(buff) of the main loop (the channel case and
\* the ticker case both end with it)
WorkerWrite ==
    /\ panic = "none"
    /\ wpc = "wb"
    /\ \E f \in WriteOutcomes(buff[1]) :
         /\ ApplyFs(writeBuffer(FileState, buff[1], recs, f).fs)
         /\ Failed(f)
    /\ count' = count - 1
    /\ buff' = Nil
    /\ wpc' = "select"
    /\ UNCHANGED <<sideVars, clientVars, mu, flagVars, current, fullBuffer, fctx, readyLen,
                   panic, callHist, syncHist, closeHist>>

\* a tick that takes the staging buffer whatever the channel holds
TickSkipsMut(ch, c) == c = Nil

\* case <-t.C: if len(l.fullBuffer) != 0 { continue }; if l.current == nil { continue }
TickSkips(ch, c) == ch # <<>> \/ c = Nil

\* case <-t.C, under the mutex: skip when the channel holds buffers or nothing
\* is staged, else take the staging buffer
WorkerTick ==
    /\ panic = "none"
    /\ wpc = "select"
    /\ mu = "none"
    /\ IF TickSkips(fullBuffer, current)
       THEN UNCHANGED <<wpc, buff, current>>
       ELSE /\ buff' = current
            /\ current' = Nil
            /\ wpc' = "wb"
    /\ UNCHANGED <<sideVars, clientVars, mu, flagVars, fullBuffer, count, fctx, readyLen,
                   fileVars, panic, callHist, ioFailed, syncHist, closeHist>>

\* a flush() that leaves the queued buffers in the channel
FlushReadyLenMut(ch) == 0

\* flush(): readyLen := len(l.fullBuffer)
FlushReadyLen(ch) == Len(ch)

\* case <-l.syncFlush: l.mu.Lock(); flush() begins
WorkerSyncLock ==
    /\ panic = "none"
    /\ wpc = "sf_lock"
    /\ mu = "none"
    /\ mu' = "worker"
    /\ fctx' = "sync"
    /\ readyLen' = FlushReadyLen(fullBuffer)
    /\ covered' = {g \in Clients : pc[g] = "s_recv"}
    /\ wpc' = "fl_drain"
    /\ UNCHANGED <<sideVars, clientVars, flagVars, bufVars, buff, fileVars, panic, callHist,
                   ioFailed, synced, lateSync, closeHist>>

\* case <-l.done: return; the deferred function begins with flush()
WorkerDone ==
    /\ panic = "none"
    /\ wpc = "select"
    /\ done
    /\ fctx' = "final"
    /\ readyLen' = FlushReadyLen(fullBuffer)
    /\ wpc' = "fl_drain"
    /\ UNCHANGED <<sideVars, clientVars, mu, flagVars, bufVars, buff, fileVars, panic,
                   callHist, ioFailed, syncHist, closeHist>>

\* flush(): one iteration of the drain loop, or its end
FlushDrain ==
    /\ panic = "none"
    /\ wpc = "fl_drain"
    /\ IF readyLen > 0
       THEN /\ fullBuffer # <<>>
            /\ \E f \in WriteOutcomes(Head(fullBuffer)) :
                 /\ ApplyFs(writeBuffer(FileState, Head(fullBuffer), recs, f).fs)
                 /\ Failed(f)
            /\ fullBuffer' = Tail(fullBuffer)
            /\ count' = count - 1
            /\ readyLen' = readyLen - 1
            /\ finalQueued' = (finalQueued \/ fctx = "final")
            /\ UNCHANGED wpc
       ELSE /\ wpc' = IF current # Nil THEN "fl_write" ELSE "fl_nil"
            /\ UNCHANGED <<fullBuffer, count, readyLen, fileVars, ioFailed,
                           finalQueued>>
    /\ UNCHANGED <<sideVars, clientVars, mu, flagVars, current, fctx, buff, panic, callHist,
                   syncHist, overlap, finalStaged, shutdownFail, closeResults>>

\* flush(): l.writeBuffer(l.current); putBuffer(l.current).  WriteTo empties the
\* buffer it has written.  l.current is read again: nil is a nil dereference.
FlushWrite ==
    /\ panic = "none"
    /\ wpc = "fl_write"
    /\ IF current = Nil
       THEN /\ panic' = "worker"
            /\ UNCHANGED <<wpc, current, count, fileVars, ioFailed, finalStaged>>
       ELSE /\ \E f \in WriteOutcomes(current[1]) :
                 LET w == writeBuffer(FileState, current[1], recs, f)
                 IN  /\ ApplyFs(w.fs)
                     /\ Failed(f)
                     /\ current' = IF w.wrote THEN Ptr(<<>>) ELSE current
            /\ count' = count - 1
            /\ finalStaged' = (finalStaged \/ (fctx = "final" /\ current[1] # <<>>))
            /\ wpc' = "fl_nil"
            /\ UNCHANGED panic
    /\ UNCHANGED <<sideVars, clientVars, mu, flagVars, fullBuffer, fctx, buff, readyLen,
                   callHist, syncHist, overlap, finalQueued, shutdownFail,
                   closeResults>>

\* flush(): l.current = nil
FlushNil ==
    /\ panic = "none"
    /\ wpc = "fl_nil"
    /\ current' = Nil
    /\ wpc' = "fl_sync"
    /\ UNCHANGED <<sideVars, clientVars, mu, flagVars, fullBuffer, count, fctx, buff,
                   readyLen, fileVars, panic, callHist, ioFailed, syncHist,
                   closeHist>>

\* flush(): if l.fp != nil { l.fp.Sync() }, its error dropped.  Then the sync
\* case unlocks; the deferred function goes on to close the file.  (A failing
\* Sync in the sync case changes nothing and is not told apart.)
FlushSync ==
    /\ panic = "none"
    /\ wpc = "fl_sync"
    /\ IF fctx = "sync"
       THEN /\ mu' = "none"
            /\ wpc' = "sf_ack"
            /\ synced' = synced \cup covered
            /\ covered' = {}
            /\ UNCHANGED lateSync
            /\ UNCHANGED <<ioFailed, shutdownFail>>
       ELSE /\ wpc' = "x_close"
            /\ \E f \in HandleOutcomes :
                 /\ Failed(f)
                 /\ shutdownFail' = (shutdownFail \/ f = "err")
            /\ UNCHANGED <<mu, syncHist>>
    /\ fctx' = "none"
    /\ UNCHANGED <<sideVars, clientVars, flagVars, bufVars, buff, readyLen, fileVars, panic,
                   callHist, overlap, finalQueued, finalStaged, closeResults>>

\* l.syncFlush <- struct{}{}: the acknowledgement, taken by a caller's receive;
\* that caller returns nil
WorkerAck(h) ==
    /\ panic = "none"
    /\ wpc = "sf_ack"
    /\ pc[h] = "s_recv"
    /\ pc' = [pc EXCEPT ![h] = "idle"]
    /\ covered' = covered \ {h}
    /\ synced' = synced \ {h}
    /\ UNCHANGED lateSync
    /\ wpc' = "select"
    /\ UNCHANGED <<sideVars, cur, wbuf, mu, flagVars, bufVars, fctx, buff, readyLen,
                   fileVars, panic, callHist, ioFailed, closeHist>>

\* l.fp after the deferred function has closed it: l.fp = nil
FpAfterExit == "nil"

\* the deferred function: if l.fp != nil { l.fp.Close(); l.fp = nil }, then
\* l.waitGroup.Done()
WorkerExit ==
    /\ panic = "none"
    /\ wpc = "x_close"
    /\ \E f \in HandleOutcomes :
         /\ Failed(f)
         /\ shutdownFail' = (shutdownFail \/ f = "err")
    /\ IF fp = "open"
       THEN /\ fp' = FpAfterExit
            /\ fdOpen' = fdOpen - 1
       ELSE UNCHANGED <<fp, fdOpen>>
    /\ wpc' = "exited"
    /\ UNCHANGED <<sideVars, clientVars, mu, flagVars, bufVars, fctx, buff, readyLen,
                   currentSize, exists, active, backups, maint, badClose, panic,
                   callHist, syncHist, overlap, finalQueued, finalStaged,
                   closeResults>>

WorkerStep ==
    \/ WorkerRecv
    \/ WorkerWrite
    \/ WorkerTick
    \/ WorkerSyncLock
    \/ WorkerDone
    \/ FlushDrain
    \/ FlushWrite
    \/ FlushNil
    \/ FlushSync
    \/ \E h \in Clients : WorkerAck(h)
    \/ WorkerExit

Next ==
    \/ \E g \in Clients : WriteStep(g)
    \/ \E g \in Clients : SyncStep(g)
    \/ \E g \in Clients : CloseStep(g)
    \/ WorkerStep

Spec == Init /\ [][Next]_vars

\* ---- the pool alone: goroutines of the process acquire and release buffers

loggerRest == <<clientVars, mu, flagVars, current, fullBuffer, workerVars, fileVars,
                panic, callHist, ioFailed, syncHist, closeHist>>

\* some goroutine calls getBuffer()
PoolGet ==
    /\ count' = getBuffer(count).count
    /\ UNCHANGED <<loggerRest, sideVars>>

\* some goroutine holding a buffer calls putBuffer(b)
PoolPut ==
    /\ count > 0
    /\ count' = putBuffer(count)
    /\ UNCHANGED <<loggerRest, sideVars>>

NextPool == PoolGet \/ PoolPut

SpecPool == Init /\ [][NextPool]_vars

\* ---- the size rule alone: the worker writes buffers one after another, no
\* call fails

\* buffer lengths around maxSize and its half
BufSizes == {1, maxSize \div 2, maxSize \div 2 + 1, maxSize, maxSize + 1}

\* a new, empty log file
InitSize == Init /\ currentSize = 0

\* l.writeBuffer(buff) for a buffer of sz bytes
SizeWrite(sz) ==
    /\ Len(recs) < MaxBuffers
    /\ recs' = Append(recs, [owner |-> "g1", size |-> sz, res |-> "nil"])
    /\ ApplyFs(writeBuffer(FileState, <<Len(recs) + 1>>, recs', "ok").fs)
    /\ UNCHANGED <<sideVars, clientVars, mu, flagVars, bufVars, workerVars, panic, nSync,
                   nClose, ioFailed, syncHist, closeHist>>

NextSize == \E sz \in BufSizes : SizeWrite(sz)

SpecSize == InitSize /\ [][NextSize]_vars

\* the same worker on a log file that initialize() found in place: l.currentSize
\* starts as fileInfo.Size()
SpecOpen == Init /\ [][NextSize]_vars

\* ---- names and time labels.  A string is the sequence of its bytes.

\* SizeLimitRotateRule.parseFilename for l.filename "a.l": prefix "a", ext ".l"
prefix == <<97>>
ext == <<46, 108>>
filename == prefix \o ext
\* backupFileDelimiter: "-"
delimiter == <<45>>
\* gzipExt: ".gz"
gzipExt == <<46, 103, 122>>

\* the byte of a decimal digit
Digit(d) == 48 + d

\* time.Format with a layout of zero-padded decimal fields (dateFormat,
\* hourFormat), for the t-th day or hour of the runs
FormatTime(t) == <<Digit(t \div 10), Digit(t % 10)>>

RECURSIVE StrLess(_, _)
\* Go's a < b on strings: bytewise, a proper prefix first
StrLess(a, b) ==
    IF b = <<>> THEN FALSE
    ELSE IF a = <<>> THEN TRUE
    ELSE IF Head(a) # Head(b) THEN Head(a) < Head(b)
    ELSE StrLess(Tail(a), Tail(b))

\* ---- a logger with the daily rule: construction, initialize, and the
\* rotations of its worker, while the clock moves on.  No call fails.

loggerAll == <<loggerRest, count>>

\* getNowDate()
getNowDate == FormatTime(now)

\* DailyRotateRule.BackupFileName
DailyBackupFileName == filename \o delimiter \o getNowDate

\* DailyRotateRule.ShallRotate
DailyShallRotate == Len(rotatedTime) > 0 /\ getNowDate # rotatedTime

InitDaily ==
    /\ LoggerInit(1)
    /\ currentSize = 0
    /\ now = 0
    /\ dpc = "new"
    /\ rotatedTime = <<>>
    /\ backup = <<>>
    /\ renamed = <<>>
    /\ rotatedOn = <<>>
    /\ RetentionOff
    /\ GzipOff
    /\ MoreOff

\* time passes: the next day begins
Tick ==
    /\ now < MaxDay
    /\ now' = now + 1
    /\ UNCHANGED <<loggerAll, retVars, gzVars, moreVars, dpc, rotatedTime, backup, renamed, rotatedOn>>

\* DefaultRotateRule(...): rotatedTime: getNowDate()
DailyNew ==
    /\ dpc = "new"
    /\ rotatedTime' = getNowDate
    /\ dpc' = "init"
    /\ UNCHANGED <<loggerAll, retVars, gzVars, moreVars, now, backup, renamed, rotatedOn>>

\* initialize(): l.backup = l.rule.BackupFileName()
DailyInitialize ==
    /\ dpc = "init"
    /\ backup' = DailyBackupFileName
    /\ dpc' = "idle"
    /\ UNCHANGED <<loggerAll, retVars, gzVars, moreVars, now, rotatedTime, renamed, rotatedOn>>

\* writeBuffer(): if l.rule.ShallRotate(...) { l.rotate() ...
DailyWrite ==
    /\ dpc = "idle"
    /\ IF DailyShallRotate
       THEN /\ dpc' = "rename"
            /\ rotatedOn' = Append(rotatedOn, now)
       ELSE UNCHANGED <<dpc, rotatedOn>>
    /\ UNCHANGED <<loggerAll, retVars, gzVars, moreVars, now, rotatedTime, backup, renamed>>

\* rotate(): if len(l.backup) > 0 { os.Rename(l.filename, l.getBackupFilename()) }
DailyRename ==
    /\ dpc = "rename"
    /\ renamed' = IF Len(backup) > 0 THEN Append(renamed, backup) ELSE renamed
    /\ dpc' = "name"
    /\ UNCHANGED <<loggerAll, retVars, gzVars, moreVars, now, rotatedTime, backup, rotatedOn>>

\* rotate(): l.backup = l.rule.BackupFileName(); os.Create(l.filename)
DailyName ==
    /\ dpc = "name"
    /\ backup' = DailyBackupFileName
    /\ dpc' = "mark"
    /\ UNCHANGED <<loggerAll, retVars, gzVars, moreVars, now, rotatedTime, renamed, rotatedOn>>

\* writeBuffer(): l.rule.MarkRotated()
DailyMark ==
    /\ dpc = "mark"
    /\ rotatedTime' = getNowDate
    /\ dpc' = "idle"
    /\ UNCHANGED <<loggerAll, retVars, gzVars, moreVars, now, backup, renamed, rotatedOn>>

NextDaily ==
    \/ Tick
    \/ DailyNew
    \/ DailyInitialize
    \/ DailyWrite
    \/ DailyRename
    \/ DailyName
    \/ DailyMark

SpecDaily == InitDaily /\ [][NextDaily]_vars

\* ---- OutdatedFiles of the three rules, as functions of the directory and
\* the clock

\* a glob that looks at the start of the name only
GlobMut(d, pre, suf) ==
    {f \in d : Len(f) >= Len(pre) /\ SubSeq(f, 1, Len(pre)) = pre}

\* filepath.Glob(pre + "*" + suf) over the names in d
Glob(d, pre, suf) ==
    {f \in d : /\ Len(f) >= Len(pre) + Len(suf)
               /\ SubSeq(f, 1, Len(pre)) = pre
               /\ SubSeq(f, Len(f) - Len(suf) + 1, Len(f)) = suf}

RECURSIVE SortStrings(_)
\* sort.Strings(files)
SortStrings(S) ==
    IF S = {} THEN <<>>
    ELSE LET m == CHOOSE x \in S : \A y \in S \ {x} : StrLess(x, y)
         IN  <<m>> \o SortStrings(S \ {m})

\* the set of the elements of a slice
Elems(q) == {q[k] : k \in 1..Len(q)}

\* a rule that keeps the oldest k backups
CutMut(n, k) == k

\* files[:len(files)-r.maxBackups]: how many names the count check cuts
Cut(n, k) == n - k

RECURSIVE UntilBoundary(_, _)
\* for _, f := range files { if f >= boundaryFile { break }; outdated[f] = ... }
UntilBoundary(q, b) ==
    IF q = <<>> \/ ~StrLess(Head(q), b) THEN {}
    ELSE {Head(q)} \cup UntilBoundary(Tail(q), b)

\* the name of the size rule's backup stamped t
SizeBackupName(t, gz) ==
    prefix \o delimiter \o FormatTime(t) \o ext \o (IF gz THEN gzipExt ELSE <<>>)

\* the name of the daily or hourly rule's backup labelled t
TimeBackupName(t, gz) ==
    filename \o delimiter \o FormatTime(t) \o (IF gz THEN gzipExt ELSE <<>>)

\* SizeLimitRotateRule.OutdatedFiles; the keys of the map, as a set
SizeOutdatedFiles(r, d, t) ==
    LET files    == SortStrings(Glob(d, prefix \o delimiter,
                                     ext \o (IF r.gzip THEN gzipExt ELSE <<>>)))
        many     == r.maxBackups > 0 /\ Len(files) > r.maxBackups
        cut      == Cut(Len(files), r.maxBackups)
        tooMany  == IF many THEN Elems(SubSeq(files, 1, cut)) ELSE {}
        kept     == IF many THEN SubSeq(files, cut + 1, Len(files)) ELSE files
        boundary == SizeBackupName(t - r.window, r.gzip)
        tooOld   == IF r.window > 0 THEN UntilBoundary(kept, boundary) ELSE {}
    IN  tooMany \cup tooOld

\* a rule that also drops the backup of the boundary label
OlderMut(f, b) == ~StrLess(b, f)

\* if file < boundaryFile
Older(f, b) == StrLess(f, b)

\* DailyRotateRule.OutdatedFiles
DailyOutdatedFiles(r, d, t) ==
    IF r.window <= 0 THEN {}
    ELSE LET files    == Glob(d, filename \o delimiter,
                              IF r.gzip THEN gzipExt ELSE <<>>)
             boundary == TimeBackupName(t - r.window, r.gzip)
         IN  {f \in files : Older(f, boundary)}

\* HourRotateRule.OutdatedFiles
HourOutdatedFiles(r, d, t) ==
    IF r.window <= 0 THEN {}
    ELSE LET files    == Glob(d, filename \o delimiter,
                              IF r.gzip THEN gzipExt ELSE <<>>)
             boundary == TimeBackupName(t - r.window, r.gzip)
         IN  {f \in files : Older(f, boundary)}

\* ---- a rule asked for its outdated files once

\* the labels backups can carry, up to the present
Stamps == 0..MaxDay
\* r.days / r.hours, and r.maxBackups
Windows == {-1, 0, 1, 2}
Counts == {-1, 0, 1, 2}

\* the names a rule of the kind leaves in the directory, compressed or not
BackupNames(kind) ==
    IF kind = "size"
    THEN {SizeBackupName(t, gz) : t \in Stamps, gz \in BOOLEAN}
    ELSE {TimeBackupName(t, gz) : t \in Stamps, gz \in BOOLEAN}

InitOutdated ==
    /\ LoggerInit(1)
    /\ currentSize = 0
    /\ DailyOff
    /\ GzipOff
    /\ MoreOff
    /\ rule \in [kind : {"size", "day", "hour"}, gzip : BOOLEAN,
                 maxBackups : Counts, window : Windows]
    /\ (rule.kind # "size" => rule.maxBackups = 0)
    /\ \E S \in SUBSET BackupNames(rule.kind) : dir = S \cup {filename}
    /\ outdates = <<>>

\* now is the time of the call, late enough for every window
CallTime == MaxDay

SizeOutdated ==
    /\ rule.kind = "size" /\ outdates = <<>>
    /\ outdates' = <<SizeOutdatedFiles(rule, dir, CallTime)>>
    /\ UNCHANGED <<loggerAll, dailyVars, gzVars, moreVars, rule, dir>>

DailyOutdated ==
    /\ rule.kind = "day" /\ outdates = <<>>
    /\ outdates' = <<DailyOutdatedFiles(rule, dir, CallTime)>>
    /\ UNCHANGED <<loggerAll, dailyVars, gzVars, moreVars, rule, dir>>

HourOutdated ==
    /\ rule.kind = "hour" /\ outdates = <<>>
    /\ outdates' = <<HourOutdatedFiles(rule, dir, CallTime)>>
    /\ UNCHANGED <<loggerAll, dailyVars, gzVars, moreVars, rule, dir>>

NextOutdated == SizeOutdated \/ DailyOutdated \/ HourOutdated

SpecOutdated == InitOutdated /\ [][NextOutdated]_vars

\* ---- gzipFile(file, fsys) as a function of the outcomes of its calls

\* a deferred close whose error is dropped
KeepFirstMut(err, e) == err

\* if err == nil { err = e }, errors as booleans (TRUE: non-nil)
KeepFirst(err, e) == IF err THEN err ELSE e

\* gzipFile: o[c] says whether call c succeeds.  err: the error returned is
\* non-nil; removeCalled, removed: Remove(file) was called, and the original
\* is gone; created: file + ".gz" was created
gzipFile(o) ==
    IF ~o["Open"]
    THEN [err |-> TRUE, removeCalled |-> FALSE, removed |-> FALSE, created |-> FALSE]
    ELSE LET \* the function body up to its return, then the deferred Close(out)
             body == IF ~o["Create"] THEN TRUE
                     ELSE LET ret == IF ~o["Copy"] THEN TRUE ELSE ~o["CloseGzip"]
                          IN  KeepFirst(ret, ~o["CloseOut"])
             \* the first deferred function: Close(in), its error only logged;
             \* then Remove(file) if err == nil
             err  == IF body THEN TRUE ELSE ~o["Remove"]
         IN  [err |-> err, removeCalled |-> ~body,
              removed |-> (~body /\ o["Remove"]), created |-> o["Create"]]

InitGzip ==
    /\ LoggerInit(1)
    /\ currentSize = 0
    /\ DailyOff
    /\ RetentionOff
    /\ MoreOff
    /\ fsys \in [FsCalls -> BOOLEAN]
    /\ gzres = <<>>

\* compressLogFile(file): gzipFile(file, fileSys)
GzipFile ==
    /\ gzres = <<>>
    /\ gzres' = <<gzipFile(fsys)>>
    /\ UNCHANGED <<loggerAll, dailyVars, retVars, moreVars, fsys>>

NextGzip == GzipFile

SpecGzip == InitGzip /\ [][NextGzip]_vars

\* ---- the logger in a process whose other writers hold bpool.size buffers

InitExhausted == InitWith(bpoolSize + 1)

SpecExhausted == InitExhausted /\ [][Next]_vars

\* ---- many goroutines write at once, one calls Close; nobody calls Sync

Writers == {"w1", "w2", "w3", "w4"}

InitCrowd ==
    /\ LoggerInitFor(Clients \cup Writers, 1)
    /\ currentSize = 0
    /\ DailyOff /\ RetentionOff /\ GzipOff /\ MoreOff

\* the writers are named in the order in which they take the mutex; each calls
\* Write once, with a record longer than a page
Turn(g) ==
    \/ g = "w1" /\ Len(recs) = 0
    \/ g = "w2" /\ Len(recs) = 1
    \/ g = "w3" /\ Len(recs) = 2
    \/ g = "w4" /\ Len(recs) = 3

CrowdWriteLock(g) ==
    /\ Turn(g)
    /\ WriteLock(g)
    /\ PageFull(recs'[Len(recs')].size)

NextCrowd ==
    \/ \E g \in Writers :
         \/ CrowdWriteLock(g)
         \/ WriteCheckClosed(g)
         \/ WriteCheckDone(g)
         \/ WriteGetBuffer(g)
         \/ WriteAppend(g)
         \/ WriteCopy(g)
         \/ WriteLenCheck(g)
         \/ WriteSend(g)
    \/ CloseCheck("g1")
    \/ CloseOnceEnter("g1")
    \/ CloseSetClosed("g1")
    \/ CloseCloseDone("g1")
    \/ CloseFinish("g1")
    \/ WorkerRecv
    \/ WorkerWrite
    \/ WorkerTick
    \/ WorkerDone
    \/ FlushDrain
    \/ FlushWrite
    \/ FlushNil
    \/ FlushSync
    \/ WorkerExit

SpecCrowd == InitCrowd /\ [][NextCrowd]_vars

\* ---- the logger while nobody calls Close, under fair scheduling

\* the steps of a Write call once it holds the mutex, up to its return or its
\* send
WriteRun(g) ==
    \/ WriteCheckClosed(g)
    \/ WriteCheckDone(g)
    \/ WriteGetBuffer(g)
    \/ WriteAppend(g)
    \/ WriteCopy(g)
    \/ WriteLenCheck(g)

\* the steps of the worker that wait for nothing
WorkerRun ==
    \/ WorkerWrite
    \/ FlushDrain
    \/ FlushWrite
    \/ FlushNil
    \/ FlushSync

NextQuiet ==
    \/ \E g \in Clients : WriteStep(g)
    \/ \E g \in Clients : SyncStep(g)
    \/ WorkerRecv
    \/ WorkerTick
    \/ WorkerSyncLock
    \/ WorkerRun
    \/ \E h \in Clients : WorkerAck(h)

\* the scheduler runs every goroutine that can take a step; a channel operation
\* or a Lock that stays possible is eventually performed
FairQuiet ==
    /\ \A g \in Clients : WF_vars(WriteRun(g))
    /\ \A g \in Clients : WF_vars(WriteSend(g))
    /\ \A g \in Clients : WF_vars(SyncSendToWorker(g))
    /\ WF_vars(WorkerRun)
    /\ WF_vars(WorkerRecv)
    /\ WF_vars(WorkerSyncLock)
    /\ WF_vars(\E h \in Clients : WorkerAck(h))

SpecQuiet == Init /\ [][NextQuiet]_vars /\ FairQuiet

\* ---- the logger while nobody calls Sync or Close: Write calls, the worker's
\* channel case and its ticker case, under fair scheduling with a ticker that
\* keeps firing

NextTicker ==
    \/ \E g \in Clients : WriteStep(g)
    \/ WorkerRecv
    \/ WorkerTick
    \/ WorkerWrite

FairTicker ==
    /\ \A g \in Clients : WF_vars(WriteRun(g))
    /\ \A g \in Clients : WF_vars(WriteSend(g))
    /\ WF_vars(WorkerRecv)
    /\ WF_vars(WorkerTick)
    /\ WF_vars(WorkerWrite)

SpecTicker == Init /\ [][NextTicker]_vars /\ FairTicker

\* ---- the logger with Close calls, under fair scheduling

\* the steps of a Close call after its first test of l.closed
CloseRun(g) ==
    \/ CloseOnceEnter(g)
    \/ CloseOnceSkip(g)
    \/ CloseSetClosed(g)
    \/ CloseCloseDone(g)
    \/ CloseFinish(g)

FairClose ==
    /\ FairQuiet
    /\ WF_vars(WorkerDone)
    /\ WF_vars(WorkerExit)
    /\ \A g \in Clients : WF_vars(CloseRun(g))

SpecFair == Init /\ [][Next]_vars /\ FairClose

\* ---- the worker alone with the size rule: writeBuffer() and rotate() call
\* by call, each call on the file system succeeding or failing

\* getNowDateInRFC3339Format(), and the stamp of BackupFileName, at the clock
getNowStamp == FormatTime(rClock)

\* SizeLimitRotateRule.BackupFileName
SizeBackupFileName == SizeBackupName(rClock, FALSE)

\* lengths of the buffers: a byte, and more than half of maxSize
RotLens == {1, maxSize \div 2 + 1}

\* NewSizeLimitRotateRule, initialize(): the file is created or opened, l.backup
\* is named
InitRotate ==
    /\ LoggerInit(1)
    /\ currentSize = 0
    /\ DailyOff /\ RetentionOff /\ GzipOff /\ LevelsOff /\ LateOff
    /\ rpc = "idle"
    /\ rfp = "open"
    /\ rOpen = 1
    /\ rSize = 0
    /\ rExists = TRUE
    /\ rBackup = SizeBackupName(0, FALSE)
    /\ rMarker = FormatTime(0)
    /\ rClock = 0
    /\ rLen = 0
    /\ rErr = "none"
    /\ rOps = <<>>
    /\ rEntry = <<>>
    /\ rCount = 0

RotRest == <<loggerAll, dailyVars, retVars, gzVars, lvlVars, lateVars>>

\* time passes
RotTick ==
    /\ rClock < MaxDay
    /\ rClock' = rClock + 1
    /\ UNCHANGED <<RotRest, rpc, rfp, rOpen, rSize, rExists, rBackup, rMarker, rLen, rErr,
                   rOps, rEntry, rCount>>

\* writeBuffer(buff): if l.rule.ShallRotate(l.currentSize + int64(buff.Len()))
WriteBufferBegin ==
    /\ rpc = "idle"
    /\ rCount < MaxBuffers
    /\ \E n \in RotLens :
         /\ rLen' = n
         /\ rpc' = IF ShallRotate(rSize + n) THEN "close" ELSE "write"
    /\ rErr' = "none"
    /\ rOps' = <<>>
    /\ rEntry' = <<rSize, rMarker>>
    /\ rCount' = rCount + 1
    /\ UNCHANGED <<RotRest, rfp, rOpen, rSize, rExists, rBackup, rMarker, rClock>>

\* rotate(): if err := l.close(); err != nil { return err }
RotateClose ==
    /\ rpc = "close"
    /\ rOps' = Append(rOps, "close")
    /\ IF rfp = "nil"
       THEN /\ rpc' = "rename"
            /\ UNCHANGED <<rfp, rOpen, rErr>>
       ELSE /\ rfp' = "nil"
            /\ rOpen' = rOpen - 1
            /\ \E ok \in BOOLEAN :
                 /\ rpc' = IF ok THEN "rename" ELSE "log"
                 /\ rErr' = IF ok THEN rErr ELSE "err"
    /\ UNCHANGED <<RotRest, rSize, rExists, rBackup, rMarker, rClock, rLen, rEntry, rCount>>

\* a rotate() that renames without asking whether the file is there
RenameGuardMut(e, b) == Len(b) > 0

\* rotate(): _, err := os.Stat(l.filename); if err == nil && len(l.backup) > 0
RenameGuard(e, b) == e /\ Len(b) > 0

\* rotate(): os.Rename(l.filename, l.getBackupFilename()), then postRotate.
\* Renaming a file that is not there fails.
RotateRename ==
    /\ rpc = "rename"
    /\ IF RenameGuard(rExists, rBackup)
       THEN /\ rOps' = Append(rOps, "rename")
            /\ \E ok \in BOOLEAN :
                 IF ok /\ rExists
                 THEN /\ rExists' = FALSE
                      /\ rpc' = "name"
                      /\ UNCHANGED rErr
                 ELSE /\ rpc' = "log"
                      /\ rErr' = "err"
                      /\ UNCHANGED rExists
       ELSE /\ rpc' = "name"
            /\ UNCHANGED <<rOps, rExists, rErr>>
    /\ UNCHANGED <<RotRest, rfp, rOpen, rSize, rBackup, rMarker, rClock, rLen, rEntry, rCount>>

\* rotate(): l.backup = l.rule.BackupFileName()
RotateName ==
    /\ rpc = "name"
    /\ rBackup' = SizeBackupFileName
    /\ rOps' = Append(rOps, "name")
    /\ rpc' = "create"
    /\ UNCHANGED <<RotRest, rfp, rOpen, rSize, rExists, rMarker, rClock, rLen, rErr, rEntry,
                   rCount>>

\* rotate(): l.fp, err = os.Create(l.filename); return err
RotateCreate ==
    /\ rpc = "create"
    /\ rOps' = Append(rOps, "create")
    /\ \E ok \in BOOLEAN :
         IF ok
         THEN /\ rfp' = "open"
              /\ rOpen' = rOpen + 1
              /\ rExists' = TRUE
              /\ rErr' = "nil"
              /\ rpc' = "mark"
         ELSE /\ rfp' = "nil"
              /\ rErr' = "err"
              /\ rpc' = "log"
              /\ UNCHANGED <<rOpen, rExists>>
    /\ UNCHANGED <<RotRest, rSize, rBackup, rMarker, rClock, rLen, rEntry, rCount>>

\* a writeBuffer() that resets the size whatever rotate() returned
SizeAfterRotateMut(err, size) == 0

\* l.currentSize after "if err := l.rotate(); err != nil {...} else {...}"
SizeAfterRotate(err, size) == IF err = "nil" THEN 0 ELSE size

\* writeBuffer(): else { l.rule.MarkRotated(); l.currentSize = 0 }
WriteBufferMark ==
    /\ rpc = "mark"
    /\ rMarker' = getNowStamp
    /\ rSize' = SizeAfterRotate(rErr, rSize)
    /\ rpc' = "write"
    /\ UNCHANGED <<RotRest, rfp, rOpen, rExists, rBackup, rClock, rLen, rErr, rOps, rEntry,
                   rCount>>

\* writeBuffer(): if err := l.rotate(); err != nil { log.Println(err) }
WriteBufferLog ==
    /\ rpc = "log"
    /\ rSize' = SizeAfterRotate(rErr, rSize)
    /\ rpc' = "write"
    /\ UNCHANGED <<RotRest, rfp, rOpen, rExists, rBackup, rMarker, rClock, rLen, rErr, rOps,
                   rEntry, rCount>>

\* writeBuffer(): if l.fp == nil { return 0, nil }; size, err := buff.WriteTo(l.fp);
\* if err != nil { return size, err }; l.currentSize += size.  A failing
\* WriteTo is taken to have written nothing.
WriteBufferWrite ==
    /\ rpc = "write"
    /\ IF rfp = "nil"
       THEN UNCHANGED rSize
       ELSE \E ok \in BOOLEAN : rSize' = IF ok THEN rSize + rLen ELSE rSize
    /\ rpc' = "idle"
    /\ UNCHANGED <<RotRest, rfp, rOpen, rExists, rBackup, rMarker, rClock, rLen, rErr, rOps,
                   rEntry, rCount>>

NextRotate ==
    \/ RotTick
    \/ WriteBufferBegin
    \/ RotateClose
    \/ RotateRename
    \/ RotateName
    \/ RotateCreate
    \/ WriteBufferMark
    \/ WriteBufferLog
    \/ WriteBufferWrite

SpecRotate == InitRotate /\ [][NextRotate]_vars

\* ---- the Logging facade: levels, cores and derived loggers

\* the levels of the facade, as the README numbers them
DebugLevel == 1
InfoLevel == 2
WarnLevel == 3
ErrorLevel == 4
FatalLevel == 5
Levels == {DebugLevel, InfoLevel, WarnLevel, ErrorLevel, FatalLevel}

\* the levels of zapcore the cores are built with
zapDebugLevel == -1
zapInfoLevel == 0
zapWarnLevel == 1
zapErrorLevel == 2
zapFatalLevel == 5

\* Level.unmarshalZapLevel: the zapcore level of the same name
unmarshalZapLevel(lv) ==
    CASE lv = DebugLevel -> zapDebugLevel
      [] lv = InfoLevel  -> zapInfoLevel
      [] lv = WarnLevel  -> zapWarnLevel
      [] lv = ErrorLevel -> zapErrorLevel
      [] lv = FatalLevel -> zapFatalLevel

FileMode == "file"
ConsoleMode == "console"

debugFilename == "debug.log"
infoFilename == "info.log"
warnFilename == "warn.log"
errorFilename == "error.log"
fatalFilename == "fatal.log"
LevelFiles == {debugFilename, infoFilename, warnFilename, errorFilename, fatalFilename}

\* the file buildFiles gives the core of a level
FileOf(level) ==
    CASE level = zapDebugLevel -> debugFilename
      [] level = zapInfoLevel  -> infoFilename
      [] level = zapWarnLevel  -> warnFilename
      [] level = zapErrorLevel -> errorFilename
      [] level = zapFatalLevel -> fatalFilename

\* where a core may write: the level files, the file of WithFilename,
\* the writer of WithWriter, os.Stdout
Sinks == LevelFiles \cup {"app.log", "writer", "stdout"}

\* the options New is called with
OptionSets ==
    {o \in [level : Levels, mode : {FileMode, ConsoleMode},
            filename : {"", "app.log"}, writer : BOOLEAN] :
        o.mode = ConsoleMode => o.filename = ""}

\* a bug LevelEnablerFunc could have: every core takes the levels above its own
LevelEnablerFuncMut(level, atomic, lvl) == atomic <= level /\ lvl >= level

\* Logging.LevelEnablerFunc(level)(lvl), atomic being l.atomicLevel.Level()
LevelEnablerFunc(level, atomic, lvl) ==
    IF level = zapFatalLevel
    THEN atomic <= level /\ lvl >= level
    ELSE atomic <= level /\ lvl = level

\* zapcore.NewCore(enc, sink, l.atomicLevel): enabled by the AtomicLevel at pointer p
AtomicCore(sink, p) == [sink |-> sink, fn |-> FALSE, ptr |-> p, level |-> 0]

\* zapcore.NewCore(enc, sink, l.LevelEnablerFunc(level))
FuncCore(sink, p, level) == [sink |-> sink, fn |-> TRUE, ptr |-> p, level |-> level]

buildConsole(opt, p) == {AtomicCore(IF opt.writer THEN "writer" ELSE "stdout", p)}

buildCustomWriter(opt, p) == {AtomicCore("writer", p)}

buildFile(opt, p) == {AtomicCore(opt.filename, p)}

buildFiles(opt, p) ==
    {FuncCore(FileOf(level), p, level) :
        level \in {zapDebugLevel, zapInfoLevel, zapWarnLevel, zapErrorLevel, zapFatalLevel}}

\* Logging.build: the cores of the zap logger
build(opt, p) ==
    IF opt.mode = FileMode
    THEN IF opt.writer THEN buildCustomWriter(opt, p)
         ELSE IF opt.filename # "" THEN buildFile(opt, p)
         ELSE buildFiles(opt, p)
    ELSE buildConsole(opt, p)

\* Core.Enabled(lvl), with the cells as they are
CoreEnabled(core, cells, lvl) ==
    IF core.fn
    THEN LevelEnablerFunc(core.level, cells[core.ptr], lvl)
    ELSE lvl >= cells[core.ptr]

\* a bug SetLevel could have: the option is set, the shared cell is not
SetLevelMut(cells, p, lv) == cells

\* Logging.SetLevel: l.atomicLevel.SetLevel(lv.unmarshalZapLevel())
SetLevel(cells, p, lv) == [cells EXCEPT ![p] = unmarshalZapLevel(lv)]

\* WithFields, WithContext, WithCallDepth: a new Logging with the options
\* copied, and the same AtomicLevel pointer and cores
Derived(l) == [opt |-> l.opt, atomicLevel |-> l.atomicLevel, lg |-> l.lg]

\* the process is gone: zap calls os.Exit after a Fatal record is written
Exited == Len(logged) > 0 /\ logged[Len(logged)].lvl = zapFatalLevel

\* New(opts...)
InitLevels ==
    /\ LoggerInit(1)
    /\ currentSize = 0
    /\ DailyOff
    /\ RetentionOff
    /\ GzipOff
    /\ RotateOff
    /\ LateOff
    /\ \E opt \in OptionSets :
        /\ lgs = <<[opt |-> opt, atomicLevel |-> 1, lg |-> 1]>>
        /\ atomicCell = <<unmarshalZapLevel(opt.level)>>
        /\ zcores = build(opt, 1)
        /\ lastSet = opt.level
    /\ out = [s \in Sinks |-> <<>>]
    /\ logged = <<>>
    /\ nSet = 0

LevelsRest == <<loggerAll, dailyVars, retVars, gzVars, rotVars, lateVars>>

NewLogging(i) ==
    /\ ~Exited
    /\ Len(lgs) < MaxLoggers
    /\ lgs' = Append(lgs, Derived(lgs[i]))
    /\ UNCHANGED <<LevelsRest, atomicCell, zcores, out, logged, lastSet, nSet>>

\* l.WithFields(fields)
WithFields == \E i \in 1..Len(lgs) : NewLogging(i)

\* l.WithContext(ctx)
WithContext == \E i \in 1..Len(lgs) : NewLogging(i)

\* l.WithCallDepth(callDepth)
WithCallDepth == \E i \in 1..Len(lgs) : NewLogging(i)

\* l.SetLevel(lv)
LoggingSetLevel ==
    \E i \in 1..Len(lgs), lv \in Levels :
        /\ ~Exited
        /\ nSet < MaxSets
        /\ lgs' = [lgs EXCEPT ![i].opt.level = lv]
        /\ atomicCell' = SetLevel(atomicCell, lgs[i].atomicLevel, lv)
        /\ lastSet' = lv
        /\ nSet' = nSet + 1
        /\ UNCHANGED <<LevelsRest, zcores, out, logged>>

\* l.Debug / Info / Warn / Error / Fatal: the zap logger hands the record to
\* every core that is enabled for its level, and the core writes it to its sink
Log(lvl) ==
    \E i \in 1..Len(lgs) :
        /\ ~Exited
        /\ Len(logged) < MaxLogs
        /\ logged' = Append(logged, [via |-> i, lvl |-> lvl])
        /\ out' = [s \in Sinks |->
                     IF \E c \in zcores : c.sink = s /\ CoreEnabled(c, atomicCell, lvl)
                     THEN Append(out[s], lvl) ELSE out[s]]
        /\ UNCHANGED <<LevelsRest, lgs, atomicCell, zcores, lastSet, nSet>>

LogDebug == Log(zapDebugLevel)
LogInfo == Log(zapInfoLevel)
LogWarn == Log(zapWarnLevel)
LogError == Log(zapErrorLevel)
LogFatal == Log(zapFatalLevel)

NextLevels ==
    \/ WithFields \/ WithContext \/ WithCallDepth
    \/ LoggingSetLevel
    \/ LogDebug \/ LogInfo \/ LogWarn \/ LogError \/ LogFatal

SpecLevels == InitLevels /\ [][NextLevels]_vars

\* ---- the goroutine of postRotate(file) beside the worker: maybeCompressFile,
\* then maybeDeleteOutdatedFiles, each call on the file system succeeding or
\* failing, while the worker goes on writing to the active file

\* the rules createOutput can build: l.opt.compress is both the rule's gzip
\* and the logger's compress
MaintRules ==
    {r \in [kind : {"size", "day", "hour"}, gzip : BOOLEAN,
            maxBackups : {0, 1}, window : {0, 1}] :
        r.kind # "size" => r.maxBackups = 0}

\* the file system of gzipFile: every call succeeds, or one of them fails
MaintFs ==
    {[c \in FsCalls |-> c # bad] : bad \in FsCalls \cup {"none"}}

\* rule.BackupFileName() at time t
BackupFileNameAt(kind, t) ==
    IF kind = "size" THEN SizeBackupName(t, FALSE) ELSE TimeBackupName(t, FALSE)

\* l.rule.OutdatedFiles()
OutdatedFiles(r, d, t) ==
    CASE r.kind = "size" -> SizeOutdatedFiles(r, d, t)
      [] r.kind = "day"  -> DailyOutdatedFiles(r, d, t)
      [] OTHER           -> HourOutdatedFiles(r, d, t)

\* the backups of earlier rotations, compressed and not
OldBackups(kind) ==
    {f \in BackupNames(kind) :
        f \notin {BackupFileNameAt(kind, t) \o gz :
                     t \in {MaxDay - 1, MaxDay}, gz \in {<<>>, gzipExt}}}

\* rotate() has renamed the active file to mFile, called postRotate(mFile),
\* named the next backup and created the new active file
InitMaint ==
    /\ LoggerInit(1)
    /\ currentSize = 0
    /\ DailyOff /\ LevelsOff /\ CasOff /\ WrapOff
    /\ rule \in MaintRules
    /\ mFile = BackupFileNameAt(rule.kind, MaxDay - 1)
    /\ \E there \in BOOLEAN :
         dir = OldBackups(rule.kind) \cup {filename}
                  \cup (IF there THEN {mFile} ELSE {})
    /\ outdates = <<>>
    /\ fsys \in MaintFs
    /\ gzres = <<>>
    /\ mpc = "compress"
    /\ mTodo = {}
    /\ mFailed = {}
    /\ rpc = "idle"
    /\ rfp = "open"
    /\ rOpen = 1
    /\ rSize = 0
    /\ rExists = TRUE
    /\ rBackup = BackupFileNameAt(rule.kind, MaxDay)
    /\ rMarker = FormatTime(MaxDay)
    /\ rClock = MaxDay
    /\ rLen = 0
    /\ rErr = "none"
    /\ rOps = <<>>
    /\ rEntry = <<>>
    /\ rCount = 0

MaintRest == <<loggerAll, dailyVars, lvlVars, rotVars, casVars, ncVars, rule, fsys>>

\* maybeCompressFile(file): nothing unless l.compress and os.Stat(file)
\* succeeds; else compressLogFile(file), whose error is logged
MaintCompress ==
    /\ mpc = "compress"
    /\ IF rule.gzip /\ mFile \in dir
       THEN LET r == gzipFile(fsys)
            IN  /\ gzres' = <<r>>
                /\ dir' = (dir \cup (IF r.created THEN {mFile \o gzipExt} ELSE {}))
                              \ (IF r.removed THEN {mFile} ELSE {})
       ELSE UNCHANGED <<gzres, dir>>
    /\ mpc' = "list"
    /\ UNCHANGED <<MaintRest, outdates, mFile, mTodo, mFailed>>

\* maybeDeleteOutdatedFiles(): files := l.rule.OutdatedFiles()
MaintList ==
    /\ mpc = "list"
    /\ outdates' = <<OutdatedFiles(rule, dir, rClock)>>
    /\ mTodo' = OutdatedFiles(rule, dir, rClock)
    /\ mpc' = "remove"
    /\ UNCHANGED <<MaintRest, gzres, dir, mFile, mFailed>>

\* a loop that gives up at the first os.Remove that fails
RemoveRestMut(todo, f, ok) == IF ok THEN todo \ {f} ELSE {}

\* for _, file := range files { if err := os.Remove(file); err != nil { log } }:
\* what is left of the range after file
RemoveRest(todo, f, ok) == todo \ {f}

\* one iteration of the loop; the map of the size rule and the glob give the
\* files in any order
MaintRemove ==
    /\ mpc = "remove"
    /\ mTodo # {}
    /\ \E f \in mTodo, ok \in BOOLEAN :
         /\ IF ok /\ f \in dir
            THEN dir' = dir \ {f} /\ UNCHANGED mFailed
            ELSE mFailed' = mFailed \cup {f} /\ UNCHANGED dir
         /\ mTodo' = RemoveRest(mTodo, f, ok /\ f \in dir)
    /\ UNCHANGED <<MaintRest, gzres, outdates, mFile, mpc>>

\* the range is over: the goroutine ends
MaintExit ==
    /\ mpc = "remove"
    /\ mTodo = {}
    /\ mpc' = "done"
    /\ UNCHANGED <<MaintRest, gzres, dir, outdates, mFile, mTodo, mFailed>>

\* the worker's writeBuffer(buff) for a buffer that does not make the rule rotate
WriteBufferStay == WriteBufferBegin /\ rpc' = "write"

NextMaint ==
    \/ MaintCompress
    \/ MaintList
    \/ MaintRemove
    \/ MaintExit
    \/ WriteBufferStay
    \/ WriteBufferWrite

SpecMaint == InitMaint /\ [][NextMaint]_vars

\* ---- the pool under contention: getBuffer() as its atomic load and its
\* compare-and-swap, putBuffer() as its atomic add, goroutines interleaved

\* the buffers out when the goroutines start: the logger's staging buffer
\* alone, or the rest of the process holding nearly all the pool lets out
PoolStarts == {1, bpoolSize - 1, bpoolSize}

InitCas ==
    /\ \E c \in PoolStarts : LoggerInit(c) /\ pBase = c
    /\ currentSize = 0
    /\ DailyOff /\ RetentionOff /\ GzipOff /\ LevelsOff /\ RotateOff
    /\ MaintOff /\ WrapOff
    /\ ppc = [g \in Clients |-> "idle"]
    /\ pObs = [g \in Clients |-> 0]
    /\ pHeld = [g \in Clients |-> 0]
    /\ pRes = [g \in Clients |-> "none"]
    /\ pCalls = 0

CasRest == <<loggerRest, dailyVars, retVars, gzVars, lvlVars, rotVars, mntVars, ncVars,
             pBase>>

\* a goroutine calls getBuffer()
CasCall(g) ==
    /\ ppc[g] = "idle"
    /\ pCalls < MaxCalls
    /\ pCalls' = pCalls + 1
    /\ ppc' = [ppc EXCEPT ![g] = "load"]
    /\ pRes' = [pRes EXCEPT ![g] = "none"]
    /\ UNCHANGED <<CasRest, count, pObs, pHeld>>

\* c := atomic.LoadInt64(&bpool.count); if c > int64(bpool.size) { return nil }
CasLoad(g) ==
    /\ ppc[g] = "load"
    /\ pObs' = [pObs EXCEPT ![g] = count]
    /\ IF PoolExhausted(count)
       THEN /\ ppc' = [ppc EXCEPT ![g] = "idle"]
            /\ pRes' = [pRes EXCEPT ![g] = "nil"]
       ELSE /\ ppc' = [ppc EXCEPT ![g] = "cas"]
            /\ UNCHANGED pRes
    /\ UNCHANGED <<CasRest, count, pHeld, pCalls>>

\* a swap that stores whatever the counter holds by now
SwapsMut(cnt, c) == TRUE

\* atomic.CompareAndSwapInt64(&bpool.count, c, c+1) succeeds
Swaps(cnt, c) == cnt = c

\* if atomic.CompareAndSwapInt64(...) { b := bpool.p.Get(); b.Reset(); return b },
\* else the loop goes round
CasSwap(g) ==
    /\ ppc[g] = "cas"
    /\ IF Swaps(count, pObs[g])
       THEN /\ count' = pObs[g] + 1
            /\ pHeld' = [pHeld EXCEPT ![g] = @ + 1]
            /\ pRes' = [pRes EXCEPT ![g] = "buf"]
            /\ ppc' = [ppc EXCEPT ![g] = "idle"]
       ELSE /\ ppc' = [ppc EXCEPT ![g] = "load"]
            /\ UNCHANGED <<count, pHeld, pRes>>
    /\ UNCHANGED <<CasRest, pObs, pCalls>>

\* putBuffer(b) by a goroutine that holds b
CasPut(g) ==
    /\ ppc[g] = "idle"
    /\ pHeld[g] > 0
    /\ count' = putBuffer(count)
    /\ pHeld' = [pHeld EXCEPT ![g] = @ - 1]
    /\ UNCHANGED <<CasRest, ppc, pObs, pRes, pCalls>>

NextCas ==
    \E g \in Clients : CasCall(g) \/ CasLoad(g) \/ CasSwap(g) \/ CasPut(g)

SpecCas == InitCas /\ [][NextCas]_vars

\* ---- NonColorable.Write(data) over a RotateLogger, as a function of data and
\* of what the RotateLogger's Write returns each time it is called

\* ESC, '[', a letter, a digit
WrapBytes == {escByte, csiByte, 97, 49}

\* what RotateLogger.Write returns
WriteResults == {"nil", "ErrClosedRollingFile", "ErrLoggerIsClosed", "ErrBuffer"}

\* ('a' <= c && c <= 'z') || ('A' <= c && c <= 'Z') || c == '@'
IsFinalByte(c) == (97 <= c /\ c <= 122) \/ (65 <= c /\ c <= 90) \/ c = 64

\* plaintext.WriteTo(w.out): no call for an empty buffer; else one Write call
\* on w.out, which takes the bytes or returns its error
WriteTo(plain, outs, st) ==
    IF plain = <<>> THEN st
    ELSE LET r == IF st.calls < Len(outs) THEN outs[st.calls + 1] ELSE "nil"
         IN  [out   |-> IF r = "nil" THEN st.out \o plain ELSE st.out,
              calls |-> st.calls + 1,
              werr  |-> r]

RECURSIVE SkipSequence(_, _)
\* the inner loop: read up to the byte that ends the escape sequence; the
\* index after it, 0 when the data end first
SkipSequence(data, j) ==
    IF j > Len(data) THEN 0
    ELSE IF IsFinalByte(data[j]) THEN j + 1
    ELSE SkipSequence(data, j + 1)

RECURSIVE WriteLoop(_, _, _, _, _)
\* the loop of Write from data[i] on, plaintext holding plain
WriteLoop(data, outs, i, plain, st) ==
    IF i > Len(data) THEN WriteTo(plain, outs, st)
    ELSE IF data[i] # escByte
    THEN WriteLoop(data, outs, i + 1, Append(plain, data[i]), st)
    ELSE LET w == WriteTo(plain, outs, st)
         IN  IF w.werr # "nil" THEN w
             ELSE IF i + 1 > Len(data) THEN w
             ELSE IF data[i + 1] # csiByte THEN WriteLoop(data, outs, i + 2, <<>>, w)
             ELSE LET j == SkipSequence(data, i + 2)
                  IN  IF j = 0 THEN w ELSE WriteLoop(data, outs, j, <<>>, w)

\* a Write that hands the error of w.out back
ReturnedMut(data, werr) ==
    [n |-> IF werr = "nil" THEN Len(data) ELSE 0, err |-> werr]

\* return len(data), nil
Returned(data, werr) == [n |-> Len(data), err |-> "nil"]

\* NonColorable.Write: what it returns, the bytes w.out took, the calls made
\* on w.out and the last result of w.out
NonColorableWrite(data, outs) ==
    LET st == WriteLoop(data, outs, 1, <<>>, [out |-> <<>>, calls |-> 0, werr |-> "nil"])
    IN  [ret |-> Returned(data, st.werr), out |-> st.out, calls |-> st.calls,
         werr |-> st.werr]

InitWrap ==
    /\ LoggerInit(1)
    /\ currentSize = 0
    /\ DailyOff /\ RetentionOff /\ GzipOff /\ LevelsOff /\ RotateOff
    /\ MaintOff /\ CasOff
    /\ ncData \in UNION {[1..n -> WrapBytes] : n \in 0..MaxData}
    /\ ncOuts \in [1..(MaxData \div 2 + 1) -> WriteResults]
    /\ ncRes = <<>>

\* the zap core calls Write(data) on the writer createOutput gave it
WrapWrite ==
    /\ ncRes = <<>>
    /\ ncRes' = <<NonColorableWrite(ncData, ncOuts)>>
    /\ UNCHANGED <<loggerAll, dailyVars, retVars, gzVars, lvlVars, rotVars, mntVars,
                   casVars, ncData, ncOuts>>

NextWrap == WrapWrite

SpecWrap == InitWrap /\ [][NextWrap]_vars

\* ---- what is on disk

RECURSIVE Concat(_)
Concat(ss) == IF ss = <<>> THEN <<>> ELSE Head(ss) \o Concat(Tail(ss))

\* the backups in rotation order, then the active file
OnDisk == Concat(backups) \o active

\* how often entry e is on disk
Occurrences(e) == Cardinality({k \in 1..Len(OnDisk) : OnDisk[k] = e})

\* where the bytes of record i are
Pos(i) == CHOOSE k \in 1..Len(OnDisk) : OnDisk[k] = i

Records == 1..Len(recs)
Succeeded(i) == recs[i].res = "nil"

\* the first Close call, the one that ran the shutdown, has returned
FirstCloseReturned == once = "done"

\* the step in which g's Sync call returns nil
SyncReturnsNil(g) == pc[g] = "s_recv" /\ pc'[g] = "idle"

ClosePcs == {"c_once", "c_set", "c_done", "c_wait"}

\* ---- the claims

\* C1: if every Write call had returned before Close was issued and no file
\* call failed, then once the Close call that ran the shutdown has returned,
\* every record whose Write returned nil is on disk (backups, then the active
\* file) exactly once and whole: nothing staged or queued is discarded.
C1_NoDataLossOnClose ==
    (FirstCloseReturned /\ ~overlap /\ ~ioFailed) =>
        \A i \in Records :
            Succeeded(i) => Occurrences(i) = 1 /\ Occurrences(-i) = 0

\* a shutdown that found a queued buffer and a staged record, with a rotation,
\* after three Writes that were over before Close
C1_Witness ==
    /\ FirstCloseReturned /\ ~overlap /\ ~ioFailed
    /\ finalQueued /\ finalStaged
    /\ Len(recs) = 3 /\ \A i \in Records : Succeeded(i)
    /\ backups # <<>>

\* C2: for every interleaving of a Write with a concurrent Close, a Write
\* that returned nil has its bytes on disk once Close has returned.
C2_NoSilentDrop ==
    (FirstCloseReturned /\ ~ioFailed /\ panic = "none") =>
        \A i \in Records : Succeeded(i) => Occurrences(i) >= 1

\* C3: l.closed never goes back to false, and a Write that finds it set
\* returns ErrClosedRollingFile in its next step, leaving the staging buffer,
\* the pool count and the handoff channel as they are.
C3_ClosedIsOneWay ==
    [][ /\ (closed => closed')
        /\ \A g \in Clients :
             (pc[g] = "w_closed" /\ closed /\ pc'[g] # pc[g]) =>
                 /\ pc'[g] = "idle"
                 /\ recs'[cur[g]].res = "ErrClosedRollingFile"
                 /\ UNCHANGED <<current, count, fullBuffer>> ]_vars

\* a Write issued after Close had set the flag has returned ErrClosedRollingFile
C3_Witness ==
    \E i \in Records : recs[i].res = "ErrClosedRollingFile"

\* C4: when Sync returns nil to goroutine g, every record g wrote with a nil
\* result is on disk, whatever the other goroutines' Writes are doing (g's is
\* the only Sync call, nobody calls Close, no file call fails).
C4_SyncRendezvous ==
    [][ \A g \in Clients :
          (SyncReturnsNil(g) /\ nSync = 1 /\ nClose = 0 /\ ~ioFailed) =>
              \A i \in Records :
                  (recs[i].owner = g /\ Succeeded(i)) => (Occurrences(i) >= 1)' ]_vars

\* C5: a Sync call returns only by receiving the worker's acknowledgement, and
\* only after a sync flush that began after its request has completed.
C5_SyncAckByWorker ==
    [][ \A g \in Clients :
          SyncReturnsNil(g) =>
              (wpc = "sf_ack" /\ wpc' = "select" /\ g \in synced) ]_vars

\* C6: two records written by the same goroutine, the first Write returned
\* before the second was issued, are on disk in issue order (no Close call
\* is involved).
C6_CallerOrder ==
    nClose = 0 =>
        \A i, j \in Records :
            (i < j /\ recs[i].owner = recs[j].owner
                   /\ Occurrences(i) = 1 /\ Occurrences(j) = 1) => Pos(i) < Pos(j)

\* C7: the bytes of a Write that returned nil are never on disk in part: no
\* file holds a region of the record that was read before the copy into the
\* buffer was complete.
C7_AtomicAppend ==
    \A i \in Records : Succeeded(i) => Occurrences(-i) = 0

\* a Close call in progress can move, or waits for a goroutine that can
CloseNotStuck ==
    \A g \in Clients :
        (pc[g] \in ClosePcs /\ panic = "none") =>
            \/ ENABLED CloseStep(g)
            \/ pc[g] = "c_once" /\ \E h \in Clients : pc[h] \in {"c_set", "c_done", "c_wait"}
            \/ pc[g] = "c_wait" /\ ENABLED WorkerStep
            \/ pc[g] = "c_wait" /\ mu \in Clients /\ ENABLED WriteStep(mu)

\* C8: all Close calls return the same result, close(l.done) runs once (a
\* second run would panic), no file handle is closed twice and none is left
\* open once the first call has returned, and no Close call is stuck.
C8_CloseIdempotent ==
    /\ Cardinality(closeResults) <= 1
    /\ panic # "Close"
    /\ fdOpen \in {0, 1} /\ ~badClose
    /\ FirstCloseReturned => (done /\ fdOpen = 0)
    /\ CloseNotStuck

\* two Close calls have been issued and both have returned
C8_Witness ==
    /\ nClose = 2
    /\ FirstCloseReturned
    /\ \A g \in Clients : pc[g] = "idle"
    /\ closeResults = {"nil"}

\* C9: once the first Close call has returned, the worker has exited after its
\* final flush, the handle is closed and l.fp is nil; with no Write in the
\* way, nothing is left staged or queued.
C9_ClosedAfterWorkerExit ==
    FirstCloseReturned =>
        /\ wpc = "exited"
        /\ fp = "nil" /\ fdOpen = 0
        /\ ~overlap => (current = Nil /\ fullBuffer = <<>>)

\* the first Close has returned after a shutdown that had buffers to drain
C9_Witness ==
    FirstCloseReturned /\ wpc = "exited" /\ finalQueued /\ fp = "nil"

\* C10: if the final fp.Sync() or fp.Close() failed, the first Close call
\* returns a non-nil error.
C10_CloseReportsFailure ==
    (FirstCloseReturned /\ shutdownFail) => "ErrJoin" \in closeResults

\* the step in which g issues a Sync call
SyncIssued(g) == pc[g] = "idle" /\ nSync' = nSync + 1

\* C11: a Sync call issued after a Close call has returned returns
\* ErrClosedRollingFile in the step that issues it: the caller is never put at
\* the send on syncFlush (it cannot block), the worker is not woken, and no
\* file, buffer or channel is touched.
C11_SyncAfterClose ==
    [][ \A g \in Clients :
          (SyncIssued(g) /\ closeResults # {}) =>
              /\ pc'[g] = "idle"
              /\ lateSync' = {"ErrClosedRollingFile"}
              /\ UNCHANGED <<workerVars, fileVars, bufVars, mu>> ]_vars

\* a Sync call issued after Close had returned has returned its error
C11_Witness ==
    /\ lateSync = {"ErrClosedRollingFile"}
    /\ FirstCloseReturned
    /\ \A g \in Clients : pc[g] = "idle"

\* entry e is on disk after the step
OnDiskAfter(e) == \E k \in 1..Len(OnDisk') : OnDisk'[k] = e

\* the step in which the worker's main loop finishes writeBuffer(buff)
WorkerWrote == wpc = "wb" /\ wpc' = "select"

\* C12: whatever call of a rotation fails (closing the old handle, the rename,
\* creating the new file), the buffer the worker's main loop hands to
\* writeBuffer is on disk when writeBuffer returns: the buffer that triggered
\* the rotation and every later one.
C12_RotationFailureKeepsBytes ==
    [][ WorkerWrote => \A k \in 1..Len(buff[1]) : OnDiskAfter(buff[1][k]) ]_vars

\* C13: with bpool.size buffers acquired and not released, no getBuffer call
\* hands out another buffer.
C13_PoolBackpressure ==
    [][ count = bpoolSize => count' <= bpoolSize ]_vars

\* the step in which g's Write call, holding the mutex, looks for a buffer
WriteGets(g) == pc[g] = "w_get" /\ pc'[g] # "w_get"

\* C14: a Write that needs a staging buffer while the pool is exhausted returns
\* (0, ErrBuffer) in that step and releases the mutex; the staging buffer stays
\* nil and the handoff channel, the pool count and the closed flag and done
\* channel are as before.  A Write that needs one when the pool is not
\* exhausted gets it and goes on.
C14_ExhaustedWrite ==
    [][ \A g \in Clients :
          (WriteGets(g) /\ current = Nil) =>
              IF count > bpoolSize
              THEN /\ pc'[g] = "idle"
                   /\ recs'[cur[g]].res = "ErrBuffer"
                   /\ mu' = "none"
                   /\ current' = Nil
                   /\ UNCHANGED <<fullBuffer, count, closed, done>>
              ELSE /\ pc'[g] = "w_append"
                   /\ current' # Nil
                   /\ count' = count + 1 ]_vars

\* a Write was refused with ErrBuffer and a later Write, after the worker had
\* released a buffer, returned nil
C14_Witness ==
    \E i, j \in Records :
        /\ i < j
        /\ recs[i].res = "ErrBuffer"
        /\ Succeeded(j)
        /\ ~closed

\* 1 for a buffer held through pointer p, 0 for nil
One(p) == IF p = Nil THEN 0 ELSE 1

RECURSIVE HeldBy(_)
\* the detached buffers the Write calls in S hold between unlock and send
HeldBy(S) ==
    IF S = {} THEN 0
    ELSE LET g == CHOOSE x \in S : TRUE IN One(wbuf[g]) + HeldBy(S \ {g})

\* the buffers in use: the staging buffer, the queued ones, those in the hands
\* of a Write or of the worker's main loop
Held == One(current) + Len(fullBuffer) + HeldBy(Clients) + One(buff)

\* C15: bpool.count equals the number of buffers in use (so none is released
\* twice or used after its release) in every state but the one inside flush()
\* between putBuffer(l.current) and l.current = nil, and once the first Close
\* has returned with no Write call in progress, no buffer is out.
C15_PoolAccounting ==
    /\ wpc # "fl_nil" => count = Held
    /\ (FirstCloseReturned /\ \A g \in Clients : pc[g] \notin WritePcs) =>
           (count = 0 /\ Held = 0)

\* C16: starting from an empty file, after a buffer of a bytes and a buffer of
\* b bytes with a <= maxSize < a + b and b <= maxSize, there is one backup,
\* it holds the first buffer, the active file holds the second, and
\* currentSize is b; and a rule with maxSize m says ShallRotate(size) exactly
\* when m > 0 and size > m.
C16_SizeThreshold ==
    /\ (/\ Len(recs) = 2
        /\ recs[1].size <= maxSize /\ recs[2].size <= maxSize
        /\ maxSize < recs[1].size + recs[2].size) =>
           /\ backups = << <<1>> >>
           /\ active = <<2>>
           /\ maint = 1
           /\ currentSize = recs[2].size
    /\ \A m \in {-megaBytes, 0, maxSize} : \A a, b \in BufSizes \cup {0} :
           ShallRotateAt(m, a + b) <=> (m > 0 /\ a + b > m)

\* a buffer of exactly maxSize bytes, then one byte: one rotation between them
C16_Witness ==
    /\ Len(recs) = 2
    /\ recs[1].size = maxSize /\ recs[2].size = 1
    /\ backups = << <<1>> >> /\ active = <<2>> /\ currentSize = 1

\* C17: while the clock only moves forward, the names the daily rule's
\* rotations rename the active file to are strictly increasing (so pairwise
\* distinct: no rotation replaces an earlier backup), and no two rotations
\* are decided on the same day.
C17_DailyNaming ==
    /\ \A i, j \in 1..Len(renamed) : i < j => StrLess(renamed[i], renamed[j])
    /\ \A i, j \in 1..Len(rotatedOn) : i < j => rotatedOn[i] < rotatedOn[j]

\* the names the rule's pattern matches
Matched ==
    IF rule.kind = "size"
    THEN {f \in dir : \E t \in Stamps : f = SizeBackupName(t, rule.gzip)}
    ELSE {f \in dir : /\ \E t \in Stamps, gz \in BOOLEAN : f = TimeBackupName(t, gz)
                      /\ rule.gzip =>
                           \E t \in Stamps : f = TimeBackupName(t, TRUE)}

\* how many matched names sort after f
NewerThan(f) == Cardinality({g \in Matched : StrLess(f, g)})

\* C18: the size rule's OutdatedFiles returns the matched names beyond the
\* newest maxBackups (when maxBackups > 0) together with the matched names
\* that sort before the boundary name (when days > 0), and nothing else: the
\* n - k smallest for maxBackups = k > 0, days <= 0, n > k matches; nothing
\* for maxBackups <= 0 and days <= 0.
C18_SizeOutdated ==
    (rule.kind = "size" /\ outdates # <<>>) =>
        LET k        == rule.maxBackups
            boundary == SizeBackupName(CallTime - rule.window, rule.gzip)
            tooMany  == IF k > 0 THEN {f \in Matched : NewerThan(f) >= k} ELSE {}
            tooOld   == IF rule.window > 0
                        THEN {f \in Matched : StrLess(f, boundary)} ELSE {}
        IN  /\ outdates[1] = tooMany \cup tooOld
            /\ (k > 0 /\ rule.window <= 0 /\ Cardinality(Matched) > k) =>
                   Cardinality(outdates[1]) = Cardinality(Matched) - k
            /\ (k <= 0 /\ rule.window <= 0) => outdates[1] = {}

\* maxBackups = 2, no retention window, four matching backups: the two
\* smallest are returned
C18_Witness ==
    /\ rule.kind = "size" /\ rule.maxBackups = 2 /\ rule.window <= 0
    /\ ~rule.gzip
    /\ Cardinality(Matched) = 4
    /\ outdates = << {SizeBackupName(0, FALSE), SizeBackupName(1, FALSE)} >>

\* C19: the daily and the hourly rule's OutdatedFiles returns nothing when the
\* window (days, hours) is <= 0, whatever the directory holds; otherwise
\* exactly the matched names strictly below filename + delimiter +
\* label(now - window) [+ ".gz"], so that a backup carrying the boundary
\* label, compressed or not, is kept.
C19_TimeOutdated ==
    (rule.kind \in {"day", "hour"} /\ outdates # <<>>) =>
        LET boundary == TimeBackupName(CallTime - rule.window, rule.gzip)
        IN  /\ rule.window <= 0 => outdates[1] = {}
            /\ rule.window > 0 =>
                 /\ outdates[1] = {f \in Matched : StrLess(f, boundary)}
                 /\ \A gz \in BOOLEAN :
                      TimeBackupName(CallTime - rule.window, gz) \notin outdates[1]

\* a daily rule keeping one day of compressed backups: the backup of the
\* boundary day is on disk and kept, the one of the day before is returned
C19_Witness ==
    /\ rule.kind = "day" /\ rule.window = 1 /\ rule.gzip
    /\ TimeBackupName(CallTime - 1, TRUE) \in dir
    /\ TimeBackupName(CallTime - 2, TRUE) \in dir
    /\ outdates # <<>>
    /\ TimeBackupName(CallTime - 2, TRUE) \in outdates[1]
    /\ TimeBackupName(CallTime - 1, TRUE) \notin outdates[1]

\* Open, Create, Copy, Close(gzip writer) and Close(output) all succeed
FiveSucceed ==
    \A c \in {"Open", "Create", "Copy", "CloseGzip", "CloseOut"} : fsys[c]

\* C20: whatever calls of gzipFile succeed or fail, Remove(file) is called
\* exactly when Open, Create, Copy, Close(gzip writer) and Close(output) all
\* succeeded, whether or not Close(input) did; so, Remove doing its work, the
\* original is gone exactly then, and after any of the five failures the
\* original is in place and the error returned is non-nil.
C20_GzipKeepsOriginal ==
    gzres # <<>> =>
        /\ gzres[1].removeCalled <=> FiveSucceed
        /\ fsys["Remove"] => (gzres[1].removed <=> FiveSucceed)
        /\ ~FiveSucceed => (~gzres[1].removed /\ gzres[1].err)
        /\ (FiveSucceed /\ fsys["Remove"]) => ~gzres[1].err

\* only Close(output) fails: the original stays and an error is returned
C20_Witness ==
    /\ \A c \in FsCalls : fsys[c] <=> c # "CloseOut"
    /\ gzres # <<>>
    /\ ~gzres[1].removed /\ gzres[1].err /\ gzres[1].created


\* ---- claims about the Logging facade

\* New was called for one file per level: FileMode, no filename, no writer
MultiFile ==
    /\ Len(lgs) > 0
    /\ lgs[1].opt.mode = FileMode
    /\ lgs[1].opt.filename = ""
    /\ ~lgs[1].opt.writer

\* this step is a log call
LogCall == Len(logged') = Len(logged) + 1

\* the level of the record the log call of this step carries
LogLevel == logged'[Len(logged')].lvl

\* the sinks holding some record
Written == {s \in DOMAIN out : out[s] # <<>>}

\* C21: in multi-file mode a record below the configured threshold is written
\* to no file, and a record at or above it is written to exactly one file,
\* the file of its own level.
C21_LevelRouting ==
    [][(LogCall /\ MultiFile) =>
          \A s \in Sinks :
              out'[s] = IF LogLevel >= unmarshalZapLevel(lastSet) /\ s = FileOf(LogLevel)
                        THEN Append(out[s], LogLevel)
                        ELSE out[s]]_vars

\* the threshold is Warn and an Error record went to error.log alone
C21_Witness ==
    /\ MultiFile
    /\ nSet = 0
    /\ lastSet = WarnLevel
    /\ Len(logged) = 1
    /\ logged[1].lvl = zapErrorLevel
    /\ out[errorFilename] = <<zapErrorLevel>>
    /\ Written = {errorFilename}

\* C22: after any sequence of SetLevel calls, a record logged through the
\* Logging or any logger derived from it is emitted if and only if its level
\* is at or above the most recently set level.
C22_SetLevelShared ==
    [][LogCall =>
          ((\E s \in Sinks : out'[s] # out[s])
              <=> LogLevel >= unmarshalZapLevel(lastSet))]_vars

\* the root was set to Debug and then to Info, and the Debug record of a
\* logger derived from it did not come out
C22_Witness ==
    /\ Len(lgs) = 2
    /\ nSet = 2
    /\ lastSet = InfoLevel
    /\ lgs[1].opt.level = InfoLevel
    /\ lgs[2].opt.level # InfoLevel
    /\ logged = <<[via |-> 2, lvl |-> zapDebugLevel]>>
    /\ Written = {}


\* ---- claims about termination

\* the positions of a caller inside Sync, waiting on l.syncFlush
SyncPcs == {"s_send", "s_recv"}

\* C23: every Sync call eventually returns.  Only the worker serves
\* l.syncFlush, and a caller's send can otherwise meet only another caller's
\* receive, which leaves the sender waiting in its place: so no Sync call is
\* still waiting on l.syncFlush once the worker has exited.
C23_SyncReturns ==
    \A g \in Clients : wpc = "exited" => pc[g] \notin SyncPcs

\* C24: a Write blocked handing its full buffer to l.fullBuffer is eventually
\* unblocked and returns.  Only the worker receives from the channel: so no
\* Write call is waiting to send while the channel is full and the worker has
\* exited.
C24_HandoffUnblocks ==
    \A g \in DOMAIN pc :
        ~(pc[g] = "w_send" /\ Len(fullBuffer) = ChanCap /\ wpc = "exited")

\* as long as the process does not panic, a Close call in progress returns
CloseReturnsUnlessPanic ==
    \A g \in Clients : (pc[g] \in ClosePcs) ~> (pc[g] = "idle" \/ panic # "none")

\* C25: every Close call eventually returns.  A panic ends the process and
\* with it every goroutine: so no Close call is in progress when the process
\* panics.
C25_CloseReturns ==
    \A g \in Clients : pc[g] \in ClosePcs => panic = "none"

\* a call of g is in progress
InCall(g) == pc[g] # "idle"

\* the steps that carry on a call in progress, or the worker
Progress ==
    \/ \E g \in Clients : WriteRun(g) \/ WriteSend(g) \/ SyncSendToWorker(g)
    \/ \E g, h \in Clients : SyncSendToCaller(g, h)
    \/ WorkerRecv \/ WorkerSyncLock \/ WorkerRun
    \/ \E h \in Clients : WorkerAck(h)

WriteCurrentPcs == {"w_get", "w_append", "w_copy", "w_len"}

\* the positions of flush() at which its next step reads or writes l.current
FlushCurrentPcs == {"fl_write", "fl_nil"}

\* C27: every access to the staging buffer is made under the mutex: the worker
\* is never about to read or write l.current in flush() while a Write call is
\* between its accesses to it, and Write never dereferences a staging buffer
\* that the worker has set to nil.
C27_StagingUnderMutex ==
    /\ ~(wpc \in FlushCurrentPcs /\ \E g \in Clients : pc[g] \in WriteCurrentPcs)
    /\ panic # "Write"

\* the file handle and what is reached through it, l.currentSize, and the
\* files the pending backup name and the rule's marker decide
OwnedByWorker == <<fp, currentSize, exists, active, backups, fdOpen>>

\* this step is taken by the worker alone, before it has exited
WorkerAlone == wpc # "exited" /\ pc' = pc /\ panic' = panic

\* this step is the end of g's Close call, after the worker has exited
CloseAfterExit(g) ==
    /\ wpc = "exited"
    /\ pc[g] = "c_wait"
    /\ pc' = [pc EXCEPT ![g] = "idle"]

\* C28: the file handle, currentSize, the backup name and the rule's marker
\* are touched by one goroutine at a time: by the worker alone until it has
\* exited (never by a step of Write or Sync), and by Close only after that.
C28_SingleOwner ==
    [][OwnedByWorker' # OwnedByWorker =>
          (WorkerAlone \/ \E g \in Clients : CloseAfterExit(g))]_vars

\* Write and Sync calls were served, the worker wrote to the file, closed it
\* and exited, and then Close returned
C28_Witness ==
    /\ wpc = "exited"
    /\ once = "done"
    /\ fp = "nil"
    /\ fdOpen = 0
    /\ active # <<>>
    /\ nSync > 0
    /\ \A g \in Clients : pc[g] = "idle"

\* ---- claims about rotation

\* the place of a call in rotate()
Rank(op) ==
    CASE op = "close"  -> 1
      [] op = "rename" -> 2
      [] op = "name"   -> 3
      [] op = "create" -> 4

\* this step makes the call op of rotate()
Calls(op) == rOps' = Append(rOps, op)

\* C29: at most one file handle is open at any instant; a rotation makes its
\* calls in the order close, rename, new backup name, create; the rename is
\* made only if the active file exists and the backup name is not empty, and
\* the new file is created only when the old handle has been closed.
C29_RotationOrder ==
    /\ [](/\ rOpen <= 1
          /\ \A i, j \in 1..Len(rOps) : i < j => Rank(rOps[i]) < Rank(rOps[j])
          /\ rOps # <<>> => rOps[1] = "close"
          /\ rErr = "nil" => rOps \in {<<"close", "rename", "name", "create">>,
                                       <<"close", "name", "create">>})
    /\ [][/\ Calls("rename") => (rExists /\ Len(rBackup) > 0)
          /\ Calls("create") => (rfp = "nil" /\ rOpen = 0)]_vars

\* a rotation that made all four calls has returned nil, one handle is open
C29_Witness ==
    /\ rErr = "nil"
    /\ rOps = <<"close", "rename", "name", "create">>
    /\ rfp = "open"
    /\ rOpen = 1
    /\ rpc = "idle"

\* C30: l.currentSize is reset to 0 and the rule's marker is set only in a
\* step where rotate() has returned nil; when rotate() fails both are as they
\* were when writeBuffer() was entered, so that the same prospective size
\* still makes ShallRotate answer yes.
C30_ResetOnlyOnSuccess ==
    /\ [][(rSize' < rSize \/ rMarker' # rMarker) => (rErr = "nil" /\ rSize' = 0)]_vars
    /\ []((rErr = "err" /\ rpc \in {"write", "idle"}) =>
              (<<rSize, rMarker>> = rEntry /\ ShallRotate(rSize + rLen)))

\* rotate() has failed at a later instant than the last mark, and writeBuffer()
\* has returned with the size and the marker it was entered with
C30_Witness ==
    /\ rpc = "idle"
    /\ rErr = "err"
    /\ rSize > 0
    /\ rMarker # getNowStamp
    /\ <<rSize, rMarker>> = rEntry

\* ---- claims about the maintenance goroutine

\* C31: a postRotate goroutine is spawned only in a writeBuffer step whose
\* rotate() returned nil (the step leaves l.fp an open handle on the new
\* file), and at most one per rotation.
C31_MaintenanceOnlyOnSuccess ==
    [][maint' # maint => (maint' = maint + 1 /\ fp' = "open")]_vars

\* a step of the postRotate goroutine
MaintStep == mpc' # mpc \/ mTodo' # mTodo

\* C32: OutdatedFiles never returns the active file and the goroutine never
\* removes it; no step of the goroutine, compression or deletion, failing or
\* not, changes the writer's handle, currentSize, backup name or closed flag
\* or any result of Write, Sync or Close; and when the goroutine ends every
\* outdated file has been removed or its removal has failed and been logged.
C32_MaintenanceIsolated ==
    /\ [](/\ filename \in dir
          /\ outdates # <<>> => filename \notin outdates[1]
          /\ mFile # filename /\ mFile \o gzipExt # filename
          /\ mpc = "done" => \A f \in outdates[1] : f \notin dir \/ f \in mFailed)
    /\ [][MaintStep => UNCHANGED <<loggerAll, rotVars>>]_vars

\* the compression failed, one removal failed and a later one succeeded, and
\* the worker has written to the active file meanwhile
C32_Witness ==
    /\ mpc = "done"
    /\ gzres # <<>> /\ gzres[1].err
    /\ mFailed # {}
    /\ \E f \in outdates[1] : f \notin mFailed /\ f \notin dir
    /\ rCount > 0 /\ rSize > 0 /\ rfp = "open"

\* strings.HasSuffix(f, gzipExt)
EndsGz(f) ==
    Len(f) >= Len(gzipExt) /\ SubSeq(f, Len(f) - Len(gzipExt) + 1, Len(f)) = gzipExt

\* the names of dir that end in .gz
Compressed == {f \in dir : EndsGz(f)}

\* C33: with gzip set, OutdatedFiles of each rule returns names ending in .gz
\* only, never an uncompressed backup whatever its stamp, and what it returns
\* (by age and, for the size rule, by the maxBackups count) is what it would
\* return with the uncompressed backups absent from the directory.
C33_OnlyCompressedOutdated ==
    (rule.gzip /\ outdates # <<>>) =>
        /\ \A f \in outdates[1] : EndsGz(f)
        /\ \A t \in Stamps :
             /\ SizeBackupName(t, FALSE) \notin outdates[1]
             /\ TimeBackupName(t, FALSE) \notin outdates[1]
        /\ outdates[1] = OutdatedFiles(rule, Compressed, CallTime)

\* a size rule keeping one compressed backup for one day: the uncompressed
\* backups of instants 0 and 1 are older than the boundary and stay, the
\* compressed one of instant 0 is returned, the compressed one of instant 3 is not
C33_Witness ==
    /\ rule.kind = "size" /\ rule.gzip /\ rule.maxBackups = 1 /\ rule.window = 1
    /\ {SizeBackupName(0, FALSE), SizeBackupName(1, FALSE),
        SizeBackupName(0, TRUE), SizeBackupName(3, TRUE)} \subseteq dir
    /\ outdates # <<>>
    /\ SizeBackupName(0, TRUE) \in outdates[1]
    /\ SizeBackupName(3, TRUE) \notin outdates[1]
    /\ SizeBackupName(0, FALSE) \notin outdates[1]

\* ---- claims about the ticker

\* this step is the ticker case taking the staging buffer
TickFlush == wpc = "select" /\ wpc' = "wb" /\ current # Nil /\ current' = Nil

\* C34: with no Sync and no Close call, the ticker firing and the scheduling
\* fair, every record whose Write returned nil is eventually in the file,
\* unless a call on the file system has failed; and the ticker case takes the
\* staging buffer only when the handoff channel is empty.
C34_TickerFlushes ==
    /\ \A i \in 1..MaxWrites :
         (Len(recs) >= i /\ recs[i].res = "nil") ~> (Occurrences(i) >= 1 \/ ioFailed)
    /\ [][TickFlush => fullBuffer = <<>>]_vars

\* one record that does not fill the page has returned from Write and is in
\* the file, nobody having called Sync or Close
C34_Witness ==
    /\ nSync = 0 /\ nClose = 0
    /\ Len(recs) = 1 /\ recs[1].size <= logPageCacheByteSize
    /\ Succeeded(1) /\ Occurrences(1) = 1
    /\ ~ioFailed
    /\ wpc = "select"

\* ---- claims about writeBuffer

\* this step is a writeBuffer call and the putBuffer after it, from the
\* worker's loop or from flush()
WriteBufferReturned ==
    \/ WorkerWrote
    \/ wpc = "fl_drain" /\ readyLen' < readyLen
    \/ wpc = "fl_write" /\ wpc' = "fl_nil"

\* C35: a writeBuffer call that finds l.fp nil once the rotation has been
\* decided writes nothing (it returns 0 and nil), leaves l.currentSize and the
\* bytes on disk as they are; the buffer goes back to the pool and the worker
\* goes on with its loop.
C35_NilHandleNoOp ==
    /\ [](wpc = "wb" =>
            \A f \in WriteOutcomes(buff[1]) :
                LET w == writeBuffer(FileState, buff[1], recs, f)
                IN  w.fs.fp = "nil" =>
                        ~w.wrote /\ w.fs.currentSize = currentSize)
    /\ [][(WriteBufferReturned /\ fp' = "nil") =>
              /\ currentSize' = currentSize
              /\ Len(Concat(backups') \o active') = Len(OnDisk)
              /\ count' = count - 1
              /\ panic' = "none"
              /\ WorkerWrote => (wpc' = "select" /\ buff' = Nil)]_vars

\* after a rotation that failed, two full pages whose Write had returned nil
\* have gone through writeBuffer with l.fp nil: they are nowhere, the size is
\* what it was, the pool has its buffers back and the worker waits in its loop
C35_Witness ==
    /\ fp = "nil" /\ wpc = "select" /\ panic = "none"
    /\ nSync = 0 /\ nClose = 0
    /\ Len(recs) = 2
    /\ \A i \in Records : Succeeded(i) /\ recs[i].size > logPageCacheByteSize
                             /\ Occurrences(i) = 0
    /\ fullBuffer = <<>> /\ buff = Nil
    /\ \A g \in Clients : pc[g] = "idle"
    /\ currentSize = maxSize - logPageCacheByteSize
    /\ count = One(current)

\* ---- claims about the staging buffer and the handoff channel

\* C36: whenever l.mu is free the staging buffer is nil or holds at most
\* logPageCacheByteSize bytes; a buffer that has been detached keeps its
\* contents while a Write holds it, while it is in the channel and while the
\* worker holds it; no record is written to the file more than once; and the
\* channel never holds more than logPageNumber + 1 buffers.
C36_StagingBounds ==
    /\ [](/\ mu = "none" =>
               (current = Nil \/ BufLen(current[1], recs) <= logPageCacheByteSize)
          /\ Len(fullBuffer) <= logPageNumber + 1
          /\ \A i \in Records : Occurrences(i) + Occurrences(-i) <= 1)
    /\ [][/\ \A g \in Clients :
               /\ (wbuf[g] # Nil /\ wbuf'[g] # Nil) => wbuf'[g] = wbuf[g]
               /\ (wbuf[g] # Nil /\ wbuf'[g] = Nil) =>
                      fullBuffer' = Append(fullBuffer, wbuf[g][1])
          /\ fullBuffer' # fullBuffer =>
               \/ fullBuffer # <<>> /\ fullBuffer' = Tail(fullBuffer)
               \/ /\ Len(fullBuffer') = Len(fullBuffer) + 1
                  /\ SubSeq(fullBuffer', 1, Len(fullBuffer)) = fullBuffer
          /\ (fullBuffer # <<>> /\ fullBuffer' = Tail(fullBuffer) /\ buff' # Nil) =>
               buff' = Ptr(Head(fullBuffer))
          /\ (buff # Nil /\ buff' # Nil) => buff' = buff]_vars

\* the channel is full of detached pages, the staging buffer is nil and the
\* mutex is free
C36_Witness ==
    /\ Len(fullBuffer) = logPageNumber + 1
    /\ \A k \in 1..Len(fullBuffer) :
         BufLen(fullBuffer[k], recs) > logPageCacheByteSize
    /\ current = Nil
    /\ mu = "none"

\* ---- claims about l.currentSize

\* writeBuffer has been called, every time with at most maxSize bytes
BuffersFit == recs # <<>> /\ \A i \in Records : recs[i].size <= maxSize

RECURSIVE SumHeld(_)
\* the buffers the goroutines of S hold
SumHeld(S) ==
    IF S = {} THEN 0
    ELSE LET g == CHOOSE x \in S : TRUE IN pHeld[g] + SumHeld(S \ {g})

\* this step is g's getBuffer() returning nil
ReturnsNil(g) == pRes[g] # "nil" /\ pRes'[g] = "nil"

\* C38: however getBuffer and putBuffer calls interleave, bpool.count stays
\* within 0..size+1 and is the number of buffers held, so that at most size+1
\* are held at once; getBuffer returns nil only in the step in which it has
\* loaded a count above size; and a goroutine inside getBuffer can always take
\* its next step.
C38_PoolBounds ==
    /\ [](/\ count \in 0..(bpoolSize + 1)
          /\ count = pBase + SumHeld(Clients)
          /\ \A g \in Clients :
               ppc[g] # "idle" => ENABLED (CasLoad(g) \/ CasSwap(g)))
    /\ [][\A g \in Clients :
            ReturnsNil(g) => (ppc[g] = "load" /\ count > bpoolSize /\ count' = count)]_vars

\* size+1 buffers are out, both goroutines hold one, and a third getBuffer
\* call has loaded size+1 and returned nil
C38_Witness ==
    /\ count = bpoolSize + 1
    /\ pHeld["g1"] = 1 /\ pHeld["g2"] = 1
    /\ pCalls = 3
    /\ pRes["g2"] = "nil" /\ pObs["g2"] = bpoolSize + 1
    /\ \A g \in Clients : ppc[g] = "idle"

\* ---- claims about the wrapper of the file writers

\* C39: NonColorable.Write returns (len(data), nil) whatever the data and
\* whatever the RotateLogger's Write returns: ErrClosedRollingFile, the error
\* of the done channel and ErrBuffer never reach the caller.
C39_WrapperHidesErrors ==
    ncRes # <<>> => ncRes[1].ret = [n |-> Len(ncData), err |-> "nil"]

\* plain bytes handed to a closed RotateLogger: one Write call on it, which
\* returns ErrClosedRollingFile and takes nothing
C39_Witness ==
    /\ ncRes # <<>>
    /\ Len(ncData) >= 2 /\ ncData[1] \notin {escByte, csiByte}
    /\ ncRes[1].calls = 1
    /\ ncRes[1].werr = "ErrClosedRollingFile"
    /\ ncRes[1].out = <<>>
====
